---- MODULE Spec2Model ----
(***************************************************************************)
(* Verification model of pitimon/log2quickwit.                             *)
(*                                                                         *)
(*   SpecIngest : log2quickwit v1.5.x tail & batching pipeline and ingest  *)
(*                transport (processExistingData, processNewData,          *)
(*                readNewEntries, sendToQuickwitWithRetry, sendToQuickwit) *)
(*   SpecQuery  : the day-sharded query run of eduroam-accept v2.2.0 and   *)
(*                eduroam-sp v2.2.2 (driver, worker pool, merger)          *)
(*   SpecJobs   : the range sharder of the two query tools                 *)
(*   SpecOutput : createOutputData of eduroam-accept v2.2.0, run twice     *)
(***************************************************************************)
EXTENDS Integers, Sequences, FiniteSets, TLC

(***************************************************************************)
(* Bounds of the model and program constants.                              *)
(***************************************************************************)
\* number of lines the writer appends to the log file in one run
MaxLines == 4
\* config.BatchSize of the modelled run (the program's default is 30000)
BatchSize == 2
\* config.MaxRetries, the default of loadConfig
MaxRetries == 3
\* http.StatusOK
StatusOK == 200
\* the payload-too-large status sendToQuickwitWithRetry looks for
StatusTooLarge == 413

VARIABLES
    \* ---- ingestion side ----
    file,           \* the log file: a sequence of lines [id, ok]; ok = parseLine succeeds
    lastPosition,   \* *lastPosition: number of lines before the stored offset
    scanPos,        \* position of processExistingData's scanner
    entries,        \* the entries buffer of processExistingData
    phase,          \* "catchup" | "watchAdd" | "tail" | "closed"
    events,         \* write events queued on watcher.Events
    calls,          \* history: one record per sendToQuickwitWithRetry call
    \* ---- query side ----
    tool,           \* "accept" (eduroam-accept v2.2.0) | "sp" (eduroam-sp v2.2.2) | "none"
    startDate,      \* main's startDate, a time [sec, nsec]
    endDate,        \* main's endDate
    days,           \* main's days
    currentDate,    \* main's currentDate in the enqueue loop
    jobs,           \* buffer of the jobs channel
    jobsClosed,     \* close(jobs) has run
    enqueued,       \* history: every Job sent on jobs, in order
    dpc,            \* the driver's position in main
    wpc,            \* each worker goroutine's position
    pending,        \* each worker's entries still to be sent on resultChan
    failed,         \* the workers whose request returned an error
    answers,        \* history: the responses of the successful requests
    resultChan,     \* buffer of resultChan
    resultClosed,   \* close(resultChan) has run
    errChan,        \* buffer of errChan
    mpc,            \* the merger goroutine's position in processResults
    userMap,        \* processResults' local userMap (accept)
    cur,            \* the entry processResults is folding (sp)
    mu,             \* holder of the mutex: "free" | "merger"
    result,         \* the shared Result
    processedDays,  \* the atomic processed-day counter
    observedErrs,   \* errors the driver received from errChan
    exitCode,       \* -1 while running, else the process exit status
    outputWritten,  \* the output directory and file have been written
    panicked,       \* a goroutine panicked (send on a closed channel)
    \* ---- output materialisation ----
    outputs,        \* the output document built by each of two runs (<<>>: not yet)
    \* ---- configuration of the ingestion binary ----
    args,           \* the command-line flags: a map from flag name to value
    props,          \* the properties files on disk: a map from path to contents
    config,         \* main's config (<<>>: not yet loaded)
    \* ---- the log writer at byte level ----
    partial,        \* the rest of the line the log writer has written in part
    parsed,         \* history: the tokens each tail read handed to parseLine
    \* ---- the analysis functions of eduroam-sp ----
    stamps,         \* the timestamps handed to the analysis
    analysis,       \* what the analysis functions return for them (<<>>: not yet)
    \* ---- eduroam-accept v2.0.2 and v2.1.0 ----
    qpc,            \* the position of the query goroutine of v2.0.2
    hits,           \* the entries the query goroutine has still to send
    locals,         \* the local maps of each goroutine running processResults
    \* ---- the watcher of the tail loop ----
    evq,            \* watcher.Events: the queued events, each the set of its Op bits
    errq,           \* watcher.Errors: the number of queued errors
    chClosed,       \* the watcher channels that are closed
    served,         \* history: one record per event or error the loop received
    ret             \* processLogFile's return: "running" | "nil" | "error"

ingestVars == <<file, lastPosition, scanPos, entries, phase, events, calls>>

rangeVars == <<tool, startDate, endDate, days, currentDate, jobs, jobsClosed, enqueued>>

poolVars == <<wpc, pending, failed, answers, resultChan, resultClosed, errChan,
              processedDays, panicked>>

mergerVars == <<mpc, userMap, cur, mu, result>>

driverVars == <<dpc, observedErrs, exitCode, outputWritten>>

queryVars == <<rangeVars, poolVars, mergerVars, driverVars>>

confVars == <<args, props, config>>

writerVars == <<partial, parsed>>

analysisVars == <<stamps, analysis>>

legacyVars == <<qpc, hits, locals>>

watchVars == <<evq, errq, chClosed, served, ret>>

outVars == <<outputs, confVars, writerVars, analysisVars, legacyVars, watchVars>>

vars == <<ingestVars, queryVars, outVars>>

(***************************************************************************)
(* Helpers on sequences.                                                   *)
(***************************************************************************)
Range(s) == {s[i] : i \in DOMAIN s}

RECURSIVE Flatten(_)
Flatten(ss) == IF ss = <<>> THEN <<>> ELSE Head(ss) \o Flatten(Tail(ss))

RECURSIVE SelectOk(_)
\* the entries parseLine yields for a run of lines, in order, parse errors skipped
SelectOk(ls) ==
    IF ls = <<>> THEN <<>>
    ELSE IF Head(ls).ok THEN <<Head(ls).id>> \o SelectOk(Tail(ls))
         ELSE SelectOk(Tail(ls))

(***************************************************************************)
(* Ingest transport.                                                       *)
(***************************************************************************)
\* the statuses the server answers with: 200, 413 and one other failure (500)
Statuses == {StatusOK, StatusTooLarge, 500}

\* one POST of sendToQuickwit: the body keeps the order of the entries; any
\* status other than 200 is an error
sendToQuickwit(body, status) == [body |-> body, status |-> status]

RECURSIVE RetryLoop_OneMore(_, _, _, _, _, _)
\* mutant: the loop condition is i <= config.MaxRetries
RetryLoop_OneMore(es, batchSize, i, resps, posts, sleeps) ==
    IF i > MaxRetries
    THEN [posts |-> posts, sleeps |-> sleeps, err |-> "failed after attempts"]
    ELSE LET a == IF i + 1 > MaxRetries THEN MaxRetries ELSE i + 1
             p == sendToQuickwit(SubSeq(es, 1, batchSize), resps[a])
             ps == Append(posts, p)
         IN  IF p.status = StatusOK
             THEN [posts |-> ps, sleeps |-> sleeps, err |-> "nil"]
             ELSE IF p.status = StatusTooLarge
                  THEN IF batchSize \div 2 < 1
                       THEN [posts |-> ps, sleeps |-> sleeps,
                             err |-> "batch size reduced to zero"]
                       ELSE RetryLoop_OneMore(es, batchSize \div 2, i + 1, resps, ps,
                                              sleeps)
                  ELSE RetryLoop_OneMore(es, batchSize, i + 1, resps, ps,
                                         Append(sleeps, 2 ^ i))

RECURSIVE RetryLoop(_, _, _, _, _, _)
\* the for loop of sendToQuickwitWithRetry from attempt i on, working batch
\* size batchSize; resps[i + 1] is the server's answer to attempt i
RetryLoop(es, batchSize, i, resps, posts, sleeps) ==
    IF i >= MaxRetries
    THEN [posts |-> posts, sleeps |-> sleeps, err |-> "failed after attempts"]
    ELSE LET p == sendToQuickwit(SubSeq(es, 1, batchSize), resps[i + 1])
             ps == Append(posts, p)
         IN  IF p.status = StatusOK
             THEN [posts |-> ps, sleeps |-> sleeps, err |-> "nil"]
             ELSE IF p.status = StatusTooLarge
                  THEN IF batchSize \div 2 < 1
                       THEN [posts |-> ps, sleeps |-> sleeps,
                             err |-> "batch size reduced to zero"]
                       ELSE RetryLoop(es, batchSize \div 2, i + 1, resps, ps, sleeps)
                  ELSE RetryLoop(es, batchSize, i + 1, resps, ps,
                                 Append(sleeps, 2 ^ i))

sendToQuickwitWithRetry(es, resps) == RetryLoop(es, Len(es), 0, resps, <<>>, <<>>)

\* the record kept of one call: the batch handed over, by whom, and its result
CallRecord(from, es, resps) ==
    LET r == sendToQuickwitWithRetry(es, resps)
    IN  [from |-> from, batch |-> es, posts |-> r.posts, sleeps |-> r.sleeps,
         err |-> r.err]

Responses == [1..MaxRetries -> Statuses]

(***************************************************************************)
(* Tail & batching pipeline.                                               *)
(***************************************************************************)
IngestInit ==
    /\ file = <<>>
    /\ lastPosition = 0
    /\ scanPos = 0
    /\ entries = <<>>
    /\ phase = "catchup"
    /\ events = 0
    /\ calls = <<>>

\* the log writer appends one complete line; a watcher that is registered
\* queues a write event for it
AppendLine ==
    /\ Len(file) < MaxLines
    /\ \E ok \in BOOLEAN : file' = Append(file, [id |-> Len(file) + 1, ok |-> ok])
    /\ events' = IF phase = "tail" THEN events + 1 ELSE events
    /\ UNCHANGED <<lastPosition, scanPos, entries, phase, calls>>
    /\ UNCHANGED <<queryVars, outVars>>

\* one iteration of the scanner loop of processExistingData
ExistingDataScan ==
    /\ phase = "catchup"
    /\ scanPos < Len(file)
    /\ scanPos' = scanPos + 1
    /\ LET line == file[scanPos + 1]
       IN  IF ~line.ok
           THEN UNCHANGED <<entries, calls>>
           ELSE LET es == Append(entries, line.id)
                IN  IF Len(es) >= BatchSize
                    THEN \E resps \in Responses :
                            /\ calls' = Append(calls, CallRecord("catchup", es, resps))
                            /\ entries' = <<>>
                    ELSE /\ entries' = es
                         /\ UNCHANGED calls
    /\ UNCHANGED <<file, lastPosition, phase, events>>
    /\ UNCHANGED <<queryVars, outVars>>

\* mutant: the offset reached by the catch-up scan is not recorded
ExistingDataEOF_NoOffset ==
    /\ phase = "catchup"
    /\ scanPos = Len(file)
    /\ IF Len(entries) > 0
       THEN \E resps \in Responses :
               calls' = Append(calls, CallRecord("final", entries, resps))
       ELSE UNCHANGED calls
    /\ lastPosition' = lastPosition
    /\ phase' = "watchAdd"
    /\ UNCHANGED <<file, scanPos, entries, events>>
    /\ UNCHANGED <<queryVars, outVars>>

\* the scanner of processExistingData reaches end of file: the residual
\* batch is flushed and the offset recorded
ExistingDataEOF ==
    /\ phase = "catchup"
    /\ scanPos = Len(file)
    /\ IF Len(entries) > 0
       THEN \E resps \in Responses :
               calls' = Append(calls, CallRecord("final", entries, resps))
       ELSE UNCHANGED calls
    /\ lastPosition' = scanPos
    /\ phase' = "watchAdd"
    /\ UNCHANGED <<file, scanPos, entries, events>>
    /\ UNCHANGED <<queryVars, outVars>>

\* watcher.Add in processLogFile
WatcherAdd ==
    /\ phase = "watchAdd"
    /\ phase' = "tail"
    /\ UNCHANGED <<file, lastPosition, scanPos, entries, events, calls>>
    /\ UNCHANGED <<queryVars, outVars>>

\* mutant: the seek to the stored offset is lost and the file is re-read
readNewEntries_NoSeek(f, pos) == SelectOk(f)

\* readNewEntries: seek to the stored offset, scan to end of file
readNewEntries(f, pos) == SelectOk(SubSeq(f, pos + 1, Len(f)))

\* mutant: the stored offset is put back when the batch is not delivered
processNewData_KeepOffset ==
    /\ phase = "tail"
    /\ events > 0
    /\ events' = events - 1
    /\ LET newEntries == readNewEntries(file, lastPosition)
       IN  IF Len(newEntries) > 0
           THEN \E resps \in Responses :
                   LET c == CallRecord("tail", newEntries, resps)
                   IN  /\ calls' = Append(calls, c)
                       /\ lastPosition' = IF c.err = "nil" THEN Len(file)
                                          ELSE lastPosition
           ELSE /\ lastPosition' = Len(file)
                /\ UNCHANGED calls
    /\ UNCHANGED <<file, scanPos, entries, phase>>
    /\ UNCHANGED <<queryVars, outVars>>

\* a write event is served: processNewData
processNewData ==
    /\ phase = "tail"
    /\ events > 0
    /\ events' = events - 1
    /\ LET newEntries == readNewEntries(file, lastPosition)
       IN  /\ lastPosition' = Len(file)
           /\ IF Len(newEntries) > 0
              THEN \E resps \in Responses :
                      calls' = Append(calls, CallRecord("tail", newEntries, resps))
              ELSE UNCHANGED calls
    /\ UNCHANGED <<file, scanPos, entries, phase>>
    /\ UNCHANGED <<queryVars, outVars>>

\* watcher.Events or watcher.Errors is closed: processLogFile returns nil
WatcherClosed ==
    /\ phase = "tail"
    /\ phase' = "closed"
    /\ UNCHANGED <<file, lastPosition, scanPos, entries, events, calls>>
    /\ UNCHANGED <<queryVars, outVars>>

NextIngest ==
    \/ AppendLine
    \/ ExistingDataScan
    \/ ExistingDataEOF
    \/ WatcherAdd
    \/ processNewData
    \/ WatcherClosed

(***************************************************************************)
(* Query side: time values and the range computed by main.                 *)
(***************************************************************************)
\* number of worker goroutines of the modelled run (numWorkers is 10)
NumWorkers == 2
\* largest numeric days argument of the modelled runs
MaxDays == 2
\* capacity of resultChan in the modelled run (the program uses 10000)
ResultChanCap == 1
\* capacity of errChan
ErrChanCap == 1
\* 24 * time.Hour, in seconds
DaySeconds == 86400
\* the nanosecond field main gives endDate
EndNsec == 999999999

Workers == 1..NumWorkers

\* a time.Time: whole seconds and the nanoseconds within the second
Time(sec, nsec) == [sec |-> sec, nsec |-> nsec]

Before(a, b) == a.sec < b.sec \/ (a.sec = b.sec /\ a.nsec < b.nsec)

After(a, b) == Before(b, a)

Unix(t) == t.sec

\* t.AddDate(0, 0, n) and, for n = 1, t.Add(24 * time.Hour)
AddDays(t, n) == Time(t.sec + n * DaySeconds, t.nsec)

\* time.Date(y, m, d, 0, 0, 0, 0, loc)
StartOfDay(t) == Time(t.sec - (t.sec % DaySeconds), 0)

\* time.Date(y, m, d, 23, 59, 59, 999999999, loc)
EndOfDay(t) == Time(t.sec - (t.sec % DaySeconds) + 23 * 3600 + 59 * 60 + 59, EndNsec)

\* the wall-clock instants time.Now() returns in the modelled runs
NowChoices == {Time(5 * DaySeconds + 1, 7), Time(6 * DaySeconds + 43200, 0),
               Time(8 * DaySeconds - 1, 999)}

\* the second command-line argument: a number of days, a DD-MM-YYYY date
\* (n is the day it names), or none
QueryArgs ==
    {[kind |-> "days", n |-> n] : n \in 1..MaxDays}
        \cup {[kind |-> "date", n |-> d] : d \in {3, 4}}
        \cup {[kind |-> "none", n |-> 0]}

\* isLeapYear of eduroam-sp
isLeapYear(year) == year % 4 = 0 /\ (year % 100 # 0 \/ year % 400 = 0)

\* the number of leap years before year y
LeapsBefore(y) == ((y - 1) \div 4) - ((y - 1) \div 100) + ((y - 1) \div 400)

\* time.Date(y, 1, 1, 0, 0, 0, 0, loc) in days since the epoch (UTC)
DaysBeforeYear(y) == 365 * (y - 1970) + LeapsBefore(y) - LeapsBefore(1970)

\* startDate, endDate and days as main computes them from the argument
\* (the yYYYY form is eduroam-sp's)
MainRange(arg, now) ==
    LET r == IF arg.kind = "year"
             THEN [days |-> IF isLeapYear(arg.n) THEN 366 ELSE 365,
                   startDate |-> Time(DaysBeforeYear(arg.n) * DaySeconds, 0),
                   endDate |-> Time(DaysBeforeYear(arg.n + 1) * DaySeconds - 1, EndNsec)]
             ELSE IF arg.kind = "days"
             THEN [days |-> arg.n, endDate |-> now,
                   startDate |-> AddDays(now, 1 - arg.n)]
             ELSE IF arg.kind = "date"
             THEN [days |-> 1, startDate |-> Time(arg.n * DaySeconds, 0),
                   endDate |-> AddDays(Time(arg.n * DaySeconds, 0), 1)]
             ELSE [days |-> 1, endDate |-> now, startDate |-> AddDays(now, -1)]
    IN  [days |-> r.days, startDate |-> StartOfDay(r.startDate),
         endDate |-> EndOfDay(r.endDate)]

Job(s, e) == [StartTimestamp |-> s, EndTimestamp |-> e]

(***************************************************************************)
(* The search responses and their fold into entries.                       *)
(***************************************************************************)
LogEntry(u, p, r, st, ts) ==
    [Username |-> u, ServiceProvider |-> p, Realm |-> r, StationID |-> st,
     Timestamp |-> ts]

\* a date-histogram bucket: key in milliseconds, doc_count
Leaf(sec, n) == [key |-> sec * 1000, doc_count |-> n]

\* a unique_users bucket of the accept-by-realm shape
UserBucket(u, provs, daily) == [key |-> u, providers |-> provs, daily |-> daily]

\* a by_user bucket and a by_station bucket of the accept-by-SP shape
SpUserBucket(u, realms, times) == [key |-> u, by_realm |-> realms, auth_times |-> times]

StationBucket(st, users) == [key |-> st, by_user |-> users]

\* the bucket lists the search endpoint answers a Job with (accept-by-realm)
AcceptResponses(job) ==
    LET d  == job.StartTimestamp
        a1 == UserBucket("alice", <<"sp1">>, <<Leaf(d, 3)>>)
        b1 == UserBucket("bob", <<"sp1", "sp2">>, <<Leaf(d, 1)>>)
        b0 == UserBucket("bob", <<"sp2">>, <<Leaf(d, 0)>>)
    IN  {<<>>, <<a1>>, <<a1, b1>>, <<b0, a1>>}

\* the bucket lists the search endpoint answers a Job with (accept-by-SP)
SpResponses(job) ==
    LET d  == job.StartTimestamp
        a1 == SpUserBucket("alice", <<"r1">>, <<Leaf(d + 120, 2), Leaf(d + 60, 1)>>)
        a2 == SpUserBucket("alice", <<"r2", "r1">>, <<Leaf(d, 1)>>)
        b0 == SpUserBucket("bob", <<"r2">>, <<Leaf(d, 0)>>)
        bn == SpUserBucket("bob", <<>>, <<Leaf(d, 1)>>)
    IN  {<<>>, <<StationBucket("S1", <<a1>>)>>, <<StationBucket("S1", <<a2, b0>>)>>,
         <<StationBucket("S2", <<bn, a1>>)>>}

\* processUserProviderDaily: one entry per non-empty daily bucket
processUserProviderDaily(bucket, username, provider) ==
    Flatten([i \in DOMAIN bucket.daily |->
        IF bucket.daily[i].doc_count = 0 THEN <<>>
        ELSE <<LogEntry(username, provider, "", "", bucket.daily[i].key \div 1000)>>])

\* processUserBucket: every provider bucket of the user bucket, in order
processUserBucket(bucket, username) ==
    Flatten([i \in DOMAIN bucket.providers |->
        processUserProviderDaily(bucket, username, bucket.providers[i])])

\* processUserAuthTimes: one entry per non-empty auth_times bucket
processUserAuthTimes(bucket, username, realm, stationID) ==
    Flatten([i \in DOMAIN bucket.auth_times |->
        IF bucket.auth_times[i].doc_count = 0 THEN <<>>
        ELSE <<LogEntry(username, "", realm, stationID,
                        bucket.auth_times[i].key \div 1000)>>])

\* processStationBucket: every user bucket, labelled with its first realm bucket
processStationBucket(bucket, stationID) ==
    Flatten([i \in DOMAIN bucket.by_user |->
        IF Len(bucket.by_user[i].by_realm) > 0
        THEN processUserAuthTimes(bucket.by_user[i], bucket.by_user[i].key,
                                  bucket.by_user[i].by_realm[1], stationID)
        ELSE <<>>])

\* processAggregations: the entries a worker sends on resultChan for one response
processAggregations(t, buckets) ==
    Flatten([i \in DOMAIN buckets |->
        IF t = "accept" THEN processUserBucket(buckets[i], buckets[i].key)
        ELSE processStationBucket(buckets[i], buckets[i].key)])

ResponsesFor(t, job) == IF t = "accept" THEN AcceptResponses(job) ELSE SpResponses(job)

(***************************************************************************)
(* Maps (Go maps as functions whose domain is the key set).                *)
(***************************************************************************)
MapGet(m, k, d) == IF k \in DOMAIN m THEN m[k] ELSE d

MapPut(m, k, v) == [x \in DOMAIN m \cup {k} |-> IF x = k THEN v ELSE m[x]]

(***************************************************************************)
(* The driver: main of eduroam-accept v2.2.0 and eduroam-sp v2.2.2.        *)
(***************************************************************************)
EmptyResult(t) ==
    IF t = "accept" THEN [Users |-> <<>>, Providers |-> <<>>]
    ELSE [Stations |-> <<>>, Realms |-> <<>>]

\* the state main has built when the worker pool and the merger are started
QueryStart(t, arg, now) ==
    LET r == MainRange(arg, now)
    IN  /\ tool = t
        /\ startDate = r.startDate
        /\ endDate = r.endDate
        /\ days = r.days
        /\ currentDate = r.startDate
        /\ jobs = <<>>
        /\ jobsClosed = FALSE
        /\ enqueued = <<>>
        /\ dpc = "enqueue"
        /\ wpc = [w \in Workers |-> "recv"]
        /\ pending = [w \in Workers |-> <<>>]
        /\ failed = {}
        /\ answers = {}
        /\ resultChan = <<>>
        /\ resultClosed = FALSE
        /\ errChan = <<>>
        /\ mpc = "range"
        /\ userMap = <<>>
        /\ cur = <<>>
        /\ mu = "free"
        /\ result = EmptyResult(t)
        /\ processedDays = 0
        /\ observedErrs = 0
        /\ exitCode = -1
        /\ outputWritten = FALSE
        /\ panicked = FALSE

\* one iteration of main's enqueue loop: jobs <- Job{...}
DriverEnqueue ==
    /\ dpc = "enqueue"
    /\ Before(currentDate, endDate)
    /\ Len(jobs) < days
    /\ LET next     == AddDays(currentDate, 1)
           nextDate == IF After(next, endDate) THEN endDate ELSE next
           job      == Job(Unix(currentDate), Unix(nextDate))
       IN  /\ jobs' = Append(jobs, job)
           /\ enqueued' = Append(enqueued, job)
           /\ currentDate' = nextDate
    /\ UNCHANGED <<tool, startDate, endDate, days, jobsClosed>>
    /\ UNCHANGED <<poolVars, mergerVars, driverVars, ingestVars, outVars>>

\* mutant: the enqueue loop ends without close(jobs)
DriverCloseJobs_NoClose ==
    /\ dpc = "enqueue"
    /\ ~Before(currentDate, endDate)
    /\ dpc' = "wgWait"
    /\ UNCHANGED <<tool, startDate, endDate, days, currentDate, jobs, jobsClosed, enqueued>>
    /\ UNCHANGED <<poolVars, mergerVars, observedErrs, exitCode, outputWritten, ingestVars, outVars>>

\* the enqueue loop ends: close(jobs)
DriverCloseJobs ==
    /\ dpc = "enqueue"
    /\ ~Before(currentDate, endDate)
    /\ jobsClosed' = TRUE
    /\ dpc' = "wgWait"
    /\ UNCHANGED <<tool, startDate, endDate, days, currentDate, jobs, enqueued>>
    /\ UNCHANGED <<poolVars, mergerVars, observedErrs, exitCode, outputWritten, ingestVars, outVars>>

\* mutant: the driver goes on to close(resultChan) without joining the workers
DriverWgWait_NoJoin ==
    /\ dpc = "wgWait"
    /\ dpc' = "closeResult"
    /\ UNCHANGED <<rangeVars, poolVars, mergerVars, observedErrs, exitCode,
                   outputWritten, ingestVars, outVars>>

\* wg.Wait() returns
DriverWgWait ==
    /\ dpc = "wgWait"
    /\ \A w \in Workers : wpc[w] = "exited"
    /\ dpc' = "closeResult"
    /\ UNCHANGED <<rangeVars, poolVars, mergerVars, observedErrs, exitCode,
                   outputWritten, ingestVars, outVars>>

\* close(resultChan)
DriverCloseResult ==
    /\ dpc = "closeResult"
    /\ resultClosed' = TRUE
    /\ dpc' = "processDone"
    /\ UNCHANGED <<wpc, pending, failed, answers, resultChan, errChan, processedDays,
                   panicked>>
    /\ UNCHANGED <<rangeVars, mergerVars, observedErrs, exitCode, outputWritten,
                   ingestVars, outVars>>

\* <-processDone
DriverProcessDone ==
    /\ dpc = "processDone"
    /\ mpc = "done"
    /\ dpc' = "checkErr"
    /\ UNCHANGED <<rangeVars, poolVars, mergerVars, observedErrs, exitCode,
                   outputWritten, ingestVars, outVars>>

\* select { case err := <-errChan: log.Fatalf(...)  default: }
DriverCheckErr ==
    /\ dpc = "checkErr"
    /\ IF errChan # <<>>
       THEN /\ errChan' = Tail(errChan)
            /\ observedErrs' = observedErrs + 1
            /\ exitCode' = 1
            /\ dpc' = "exited"
       ELSE /\ dpc' = "output"
            /\ UNCHANGED <<errChan, observedErrs, exitCode>>
    /\ UNCHANGED <<wpc, pending, failed, answers, resultChan, resultClosed,
                   processedDays, panicked>>
    /\ UNCHANGED <<rangeVars, mergerVars, outputWritten, ingestVars, outVars>>

\* createOutputData, os.MkdirAll, os.WriteFile, return from main
DriverOutput ==
    /\ dpc = "output"
    /\ outputWritten' = TRUE
    /\ exitCode' = 0
    /\ dpc' = "exited"
    /\ UNCHANGED <<rangeVars, poolVars, mergerVars, observedErrs, ingestVars, outVars>>

(***************************************************************************)
(* The worker goroutines.                                                  *)
(***************************************************************************)
\* for job := range jobs { hits, err := worker(job, ...) }: a Job is received
\* and its request answered, with an error or with a bucket list
WorkerTakeJob(w) ==
    /\ wpc[w] = "recv"
    /\ jobs # <<>>
    /\ jobs' = Tail(jobs)
    /\ \/ /\ wpc' = [wpc EXCEPT ![w] = "failed"]
          /\ failed' = failed \cup {w}
          /\ UNCHANGED <<pending, answers>>
       \/ \E buckets \in ResponsesFor(tool, Head(jobs)) :
             /\ pending' = [pending EXCEPT ![w] = processAggregations(tool, buckets)]
             /\ answers' = answers \cup {[job |-> Head(jobs), buckets |-> buckets]}
             /\ wpc' = [wpc EXCEPT ![w] = "emit"]
             /\ UNCHANGED failed
    /\ UNCHANGED <<resultChan, resultClosed, errChan, processedDays, panicked>>
    /\ UNCHANGED <<tool, startDate, endDate, days, currentDate, jobsClosed, enqueued>>
    /\ UNCHANGED <<mergerVars, driverVars, ingestVars, outVars>>

\* mutant: a plain blocking send errChan <- err
WorkerSendErr_Blocking(w) ==
    /\ wpc[w] = "failed"
    /\ Len(errChan) < ErrChanCap
    /\ errChan' = Append(errChan, w)
    /\ wpc' = [wpc EXCEPT ![w] = "exited"]
    /\ UNCHANGED <<pending, failed, answers, resultChan, resultClosed, processedDays,
                   panicked>>
    /\ UNCHANGED <<rangeVars, mergerVars, driverVars, ingestVars, outVars>>

\* mutant: the worker goes on to the next Job after its error
WorkerSendErr_Continue(w) ==
    /\ wpc[w] = "failed"
    /\ errChan' = IF Len(errChan) < ErrChanCap THEN Append(errChan, w) ELSE errChan
    /\ wpc' = [wpc EXCEPT ![w] = "recv"]
    /\ UNCHANGED <<pending, failed, answers, resultChan, resultClosed, processedDays,
                   panicked>>
    /\ UNCHANGED <<rangeVars, mergerVars, driverVars, ingestVars, outVars>>

\* select { case errChan <- err:  default: }; return
WorkerSendErr(w) ==
    /\ wpc[w] = "failed"
    /\ errChan' = IF Len(errChan) < ErrChanCap THEN Append(errChan, w) ELSE errChan
    /\ wpc' = [wpc EXCEPT ![w] = "exited"]
    /\ UNCHANGED <<pending, failed, answers, resultChan, resultClosed, processedDays,
                   panicked>>
    /\ UNCHANGED <<rangeVars, mergerVars, driverVars, ingestVars, outVars>>

\* resultChan <- LogEntry{...}; a send on a closed channel panics
WorkerEmit(w) ==
    /\ wpc[w] = "emit"
    /\ pending[w] # <<>>
    /\ IF resultClosed
       THEN /\ panicked' = TRUE
            /\ wpc' = [wpc EXCEPT ![w] = "exited"]
            /\ UNCHANGED <<resultChan, pending>>
       ELSE /\ Len(resultChan) < ResultChanCap
            /\ resultChan' = Append(resultChan, Head(pending[w]))
            /\ pending' = [pending EXCEPT ![w] = Tail(@)]
            /\ UNCHANGED <<wpc, panicked>>
    /\ UNCHANGED <<failed, answers, resultClosed, errChan, processedDays>>
    /\ UNCHANGED <<rangeVars, mergerVars, driverVars, ingestVars, outVars>>

\* worker returned nil: totalHits.Add(hits); atomic.AddInt32(&processedDays, 1)
WorkerJobDone(w) ==
    /\ wpc[w] = "emit"
    /\ pending[w] = <<>>
    /\ processedDays' = processedDays + 1
    /\ wpc' = [wpc EXCEPT ![w] = "recv"]
    /\ UNCHANGED <<pending, failed, answers, resultChan, resultClosed, errChan, panicked>>
    /\ UNCHANGED <<rangeVars, mergerVars, driverVars, ingestVars, outVars>>

\* range jobs ends on the closed, drained channel: wg.Done()
WorkerExit(w) ==
    /\ wpc[w] = "recv"
    /\ jobs = <<>>
    /\ jobsClosed
    /\ wpc' = [wpc EXCEPT ![w] = "exited"]
    /\ UNCHANGED <<pending, failed, answers, resultChan, resultClosed, errChan,
                   processedDays, panicked>>
    /\ UNCHANGED <<rangeVars, mergerVars, driverVars, ingestVars, outVars>>

(***************************************************************************)
(* The merger goroutine: processResults.                                   *)
(***************************************************************************)
\* accept: userMap[entry.Username][entry.ServiceProvider] = true
UserMapAdd(m, e) == MapPut(m, e.Username, MapGet(m, e.Username, {}) \cup {e.ServiceProvider})

\* mutant: the provider side of the cross-map is not filled
MaterialiseAccept_UsersOnly(res, m) ==
    [Users |->
        [u \in DOMAIN res.Users \cup DOMAIN m |->
            MapGet(res.Users, u, {}) \cup MapGet(m, u, {})],
     Providers |-> res.Providers]

\* accept: the loops over userMap that fill result.Users and result.Providers
MaterialiseAccept(res, m) ==
    LET provs == UNION {m[u] : u \in DOMAIN m}
    IN  [Users |->
            [u \in DOMAIN res.Users \cup DOMAIN m |->
                MapGet(res.Users, u, {}) \cup MapGet(m, u, {})],
         Providers |->
            [p \in DOMAIN res.Providers \cup provs |->
                MapGet(res.Providers, p, {}) \cup {u \in DOMAIN m : p \in m[u]}]]

\* sp: the station and realm updates made for one entry
UpdateSp(res, e) ==
    LET st  == MapGet(res.Stations, e.StationID, [TotalAuths |-> 0, Users |-> <<>>])
        ua  == MapGet(st.Users, e.Username, [Realm |-> e.Realm, AuthTimestamps |-> <<>>])
        ua2 == [ua EXCEPT !.AuthTimestamps = Append(@, e.Timestamp)]
        rs  == MapGet(res.Realms, e.Realm, [Users |-> {}, Stations |-> {}, TotalAuths |-> 0])
    IN  [Stations |-> MapPut(res.Stations, e.StationID,
                        [TotalAuths |-> st.TotalAuths + 1,
                         Users |-> MapPut(st.Users, e.Username, ua2)]),
         Realms |-> MapPut(res.Realms, e.Realm,
                        [Users |-> rs.Users \cup {e.Username},
                         Stations |-> rs.Stations \cup {e.StationID},
                         TotalAuths |-> rs.TotalAuths + 1])]

\* mutant: the final pass leaves the lists in arrival order
SortSp_Unsorted(res) == res

\* sp: sort.Slice of every activity's AuthTimestamps
SortSp(res) ==
    [Stations |->
        [s \in DOMAIN res.Stations |->
            [res.Stations[s] EXCEPT !.Users =
                [u \in DOMAIN res.Stations[s].Users |->
                    [res.Stations[s].Users[u] EXCEPT !.AuthTimestamps =
                        SortSeq(@, LAMBDA a, b : a < b)]]]],
     Realms |-> res.Realms]

\* for entry := range resultChan: one entry is received; the sp merger takes
\* the mutex for it
MergerRecv ==
    /\ mpc = "range"
    /\ resultChan # <<>>
    /\ resultChan' = Tail(resultChan)
    /\ IF tool = "accept"
       THEN /\ userMap' = UserMapAdd(userMap, Head(resultChan))
            /\ UNCHANGED <<mpc, cur, mu>>
       ELSE /\ mu = "free"
            /\ mu' = "merger"
            /\ cur' = <<Head(resultChan)>>
            /\ mpc' = "update"
            /\ UNCHANGED userMap
    /\ UNCHANGED result
    /\ UNCHANGED <<wpc, pending, failed, answers, resultClosed, errChan, processedDays,
                   panicked>>
    /\ UNCHANGED <<rangeVars, driverVars, ingestVars, outVars>>

\* sp: the entry is folded into result under the mutex; mu.Unlock()
MergerUpdate ==
    /\ mpc = "update"
    /\ result' = UpdateSp(result, cur[1])
    /\ cur' = <<>>
    /\ mu' = "free"
    /\ mpc' = "range"
    /\ UNCHANGED userMap
    /\ UNCHANGED <<rangeVars, poolVars, driverVars, ingestVars, outVars>>

\* mutant: the final pass runs without mu.Lock()
MergerLock_NoLock ==
    /\ mpc = "range"
    /\ resultChan = <<>>
    /\ resultClosed
    /\ mpc' = "final"
    /\ UNCHANGED <<userMap, cur, result, mu>>
    /\ UNCHANGED <<rangeVars, poolVars, driverVars, ingestVars, outVars>>

\* the range loop ends on the closed, drained channel: mu.Lock()
MergerLock ==
    /\ mpc = "range"
    /\ resultChan = <<>>
    /\ resultClosed
    /\ mu = "free"
    /\ mu' = "merger"
    /\ mpc' = "final"
    /\ UNCHANGED <<userMap, cur, result>>
    /\ UNCHANGED <<rangeVars, poolVars, driverVars, ingestVars, outVars>>

\* under the mutex: accept materialises userMap into result, sp sorts the
\* timestamp lists; mu.Unlock(); close(processDone)
MergerFinal ==
    /\ mpc = "final"
    /\ result' = IF tool = "accept" THEN MaterialiseAccept(result, userMap)
                 ELSE SortSp(result)
    /\ mu' = "free"
    /\ mpc' = "done"
    /\ UNCHANGED <<userMap, cur>>
    /\ UNCHANGED <<rangeVars, poolVars, driverVars, ingestVars, outVars>>

NextQuery ==
    \/ DriverEnqueue
    \/ DriverCloseJobs
    \/ DriverWgWait
    \/ DriverCloseResult
    \/ DriverProcessDone
    \/ DriverCheckErr
    \/ DriverOutput
    \/ \E w \in Workers : WorkerTakeJob(w)
    \/ \E w \in Workers : WorkerSendErr(w)
    \/ \E w \in Workers : WorkerEmit(w)
    \/ \E w \in Workers : WorkerJobDone(w)
    \/ \E w \in Workers : WorkerExit(w)
    \/ MergerRecv
    \/ MergerUpdate
    \/ MergerLock
    \/ MergerFinal

(***************************************************************************)
(* Specifications.                                                         *)
(***************************************************************************)
\* the ingestion side is not running
IngestIdle ==
    /\ file = <<>>
    /\ lastPosition = 0
    /\ scanPos = 0
    /\ entries = <<>>
    /\ phase = "none"
    /\ events = 0
    /\ calls = <<>>

\* the query side is not running (result is set by the caller)
QueryIdleExceptResult ==
    /\ tool = "none"
    /\ startDate = Time(0, 0)
    /\ endDate = Time(0, 0)
    /\ days = 0
    /\ currentDate = Time(0, 0)
    /\ jobs = <<>>
    /\ jobsClosed = FALSE
    /\ enqueued = <<>>
    /\ dpc = "none"
    /\ wpc = [w \in Workers |-> "none"]
    /\ pending = [w \in Workers |-> <<>>]
    /\ failed = {}
    /\ answers = {}
    /\ resultChan = <<>>
    /\ resultClosed = FALSE
    /\ errChan = <<>>
    /\ mpc = "none"
    /\ userMap = <<>>
    /\ cur = <<>>
    /\ mu = "free"
    /\ processedDays = 0
    /\ observedErrs = 0
    /\ exitCode = -1
    /\ outputWritten = FALSE
    /\ panicked = FALSE

QueryIdle == QueryIdleExceptResult /\ result = <<>>

\* main has not loaded a configuration
ConfigIdle == args = <<>> /\ props = <<>> /\ config = <<>>

\* the log writer is between two lines
WriterIdle == partial = <<>> /\ parsed = <<>>

\* no analysis is under way
AnalysisIdle == stamps = <<>> /\ analysis = <<>>

\* no run of eduroam-accept v2.0.2 or v2.1.0 is under way
LegacyIdle == qpc = "none" /\ hits = <<>> /\ locals = <<>>

\* no watcher is set up
WatchIdle ==
    /\ evq = <<>>
    /\ errq = 0
    /\ chClosed = {}
    /\ served = <<>>
    /\ ret = "running"

OutputIdle ==
    /\ outputs = [run \in {1, 2} |-> <<>>]
    /\ WatchIdle
    /\ ConfigIdle
    /\ WriterIdle
    /\ AnalysisIdle
    /\ LegacyIdle

InitIngest == IngestInit /\ QueryIdle /\ OutputIdle

SpecIngest == InitIngest /\ [][NextIngest]_vars

InitQuery ==
    /\ IngestIdle
    /\ OutputIdle
    /\ \E t \in {"accept", "sp"} :
       \E arg \in {a \in QueryArgs : a.kind \in {"days", "none"}} :
          QueryStart(t, arg, Time(5 * DaySeconds + 43200, 0))

SpecQuery == InitQuery /\ [][NextQuery]_vars

(***************************************************************************)
(* The range sharder alone: main's argument handling and enqueue loop,     *)
(* with the workers reduced to their receive.                              *)
(***************************************************************************)
\* for job := range jobs: some worker receives the next Job
JobReceived ==
    /\ dpc = "enqueue"
    /\ jobs # <<>>
    /\ jobs' = Tail(jobs)
    /\ UNCHANGED <<tool, startDate, endDate, days, currentDate, jobsClosed, enqueued>>
    /\ UNCHANGED <<poolVars, mergerVars, driverVars, ingestVars, outVars>>

\* the arguments of the sharder runs: longer ranges than the full query runs
SharderArgs == QueryArgs \cup {[kind |-> "days", n |-> n] : n \in 1..(2 * MaxDays)}

NextJobs ==
    \/ DriverEnqueue
    \/ DriverCloseJobs
    \/ JobReceived

(***************************************************************************)
(* Output materialisation: createOutputData of eduroam-accept v2.2.0, run  *)
(* twice over the same Result.                                             *)
(***************************************************************************)
\* all orders in which a Go map with key set S can be iterated
Orders(S) ==
    {f \in [1..Cardinality(S) -> S] : \A i, j \in DOMAIN f : i # j => f[i] # f[j]}

\* the keys of S in the order ord (a sequence over a superset of S) lists them
RECURSIVE InOrder(_, _)
InOrder(ord, S) ==
    IF ord = <<>> THEN <<>>
    ELSE IF Head(ord) \in S THEN <<Head(ord)>> \o InOrder(Tail(ord), S)
         ELSE InOrder(Tail(ord), S)

\* insertion of the keyed element x into a sequence sorted by ascending key k,
\* after every element whose key is not greater
RECURSIVE InsertSorted(_, _)
InsertSorted(s, x) ==
    IF s = <<>> THEN <<x>>
    ELSE IF x.k < s[Len(s)].k
         THEN Append(InsertSorted(SubSeq(s, 1, Len(s) - 1), x), s[Len(s)])
         ELSE Append(s, x)

RECURSIVE InsertionSort(_)
InsertionSort(s) ==
    IF s = <<>> THEN <<>>
    ELSE InsertSorted(InsertionSort(SubSeq(s, 1, Len(s) - 1)), s[Len(s)])

\* sort.Slice on a slice of at most 12 elements, less(i, j) being
\* key(s[i]) < key(s[j]): an insertion sort, which leaves elements that compare
\* equal in the order they were appended; keys[i] is the key of s[i]
SortSlice(s, keys) ==
    LET sorted == InsertionSort([i \in DOMAIN s |-> [k |-> keys[i], v |-> s[i]]])
    IN  [i \in DOMAIN sorted |-> sorted[i].v]

\* the byte order of the names used in the modelled runs
NameOrder == <<"alice", "bob", "sp1", "sp2">>

NameRank(n) == CHOOSE i \in DOMAIN NameOrder : NameOrder[i] = n

\* createOutputData (accept): provOrd and userOrd are the iteration orders of
\* result.Providers and result.Users, memberOrd the order in which the inner
\* Users and Providers sets are iterated
createOutputData(res, provOrd, userOrd, memberOrd) ==
    LET providerStats ==
            [i \in DOMAIN provOrd |->
                LET users == InOrder(memberOrd, res.Providers[provOrd[i]])
                IN  [provider |-> provOrd[i], user_count |-> Len(users), users |-> users]]
        userStats ==
            [i \in DOMAIN userOrd |->
                [username |-> userOrd[i],
                 providers |-> InOrder(memberOrd, res.Users[userOrd[i]])]]
    IN  [summary |-> [total_users |-> Cardinality(DOMAIN res.Users),
                      total_providers |-> Cardinality(DOMAIN res.Providers)],
         provider_stats |->
            SortSlice(providerStats,
                      [i \in DOMAIN providerStats |-> 0 - providerStats[i].user_count]),
         user_stats |->
            SortSlice(userStats,
                      [i \in DOMAIN userStats |-> NameRank(userStats[i].username)])]

\* the names the remote index can hold in the modelled runs
UserNames == {"alice", "bob"}

ProviderNames == {"sp1", "sp2"}

\* the userMap a merger builds from a set of observed (user, provider) pairs
UserMapOf(pairs) ==
    [u \in {p[1] : p \in pairs} |-> {p[2] : p \in {q \in pairs : q[1] = u}}]

\* two runs over the same remote state have merged the same Result
InitOutput ==
    /\ IngestIdle
    /\ QueryIdleExceptResult
    /\ \E pairs \in SUBSET (UserNames \X ProviderNames) :
          result = MaterialiseAccept(EmptyResult("accept"), UserMapOf(pairs))
    /\ OutputIdle

\* run number run builds its output document
CreateOutput(run) ==
    /\ outputs[run] = <<>>
    /\ \E provOrd \in Orders(DOMAIN result.Providers) :
       \E userOrd \in Orders(DOMAIN result.Users) :
       \E memberOrd \in Orders(UserNames \cup ProviderNames) :
          outputs' = [outputs EXCEPT ![run] =
                        <<createOutputData(result, provOrd, userOrd, memberOrd)>>]
    /\ UNCHANGED <<ingestVars, queryVars, confVars, writerVars, analysisVars, legacyVars, watchVars>>

NextOutput == \E run \in {1, 2} : CreateOutput(run)

InitJobs ==
    /\ IngestIdle
    /\ OutputIdle
    /\ \E t \in {"accept", "sp"} : \E arg \in SharderArgs : \E now \in NowChoices :
          QueryStart(t, arg, now)

SpecJobs == InitJobs /\ [][NextJobs]_vars

SpecOutput == InitOutput /\ [][NextOutput]_vars

(***************************************************************************)
(* Observations on the ingestion history.                                  *)
(***************************************************************************)
\* every POST issued so far, in the order issued
AllPosts == Flatten([k \in DOMAIN calls |-> calls[k].posts])

RECURSIVE AcceptedOf(_)
AcceptedOf(ps) ==
    IF ps = <<>> THEN <<>>
    ELSE IF Head(ps).status = StatusOK THEN Head(ps).body \o AcceptedOf(Tail(ps))
         ELSE AcceptedOf(Tail(ps))

\* the entries the server accepted (HTTP 200), in arrival order
Accepted == AcceptedOf(AllPosts)

\* the file's line order
FileOrder == [i \in DOMAIN file |-> file[i].id]

RECURSIVE IsSubseq(_, _)
IsSubseq(s, t) ==
    IF s = <<>> THEN TRUE
    ELSE IF t = <<>> THEN FALSE
    ELSE IF Head(s) = Head(t) THEN IsSubseq(Tail(s), Tail(t))
         ELSE IsSubseq(s, Tail(t))

\* a call that was answered payload-too-large and then had a prefix accepted
HalvedAndAccepted(c) ==
    /\ c.err = "nil"
    /\ \E i \in DOMAIN c.posts : c.posts[i].status = StatusTooLarge

\* C1: when a batch is answered payload-too-large and a halved prefix is then
\* accepted, every entry of the original batch has been delivered to the
\* server by the time the pipeline has read the whole file and stopped (no
\* entry is dropped by the halving alone).
C1_HalvingLosesNothing ==
    (phase = "closed" /\ lastPosition = Len(file) /\ events = 0) =>
        \A k \in DOMAIN calls :
            HalvedAndAccepted(calls[k]) => Range(calls[k].batch) \subseteq Range(Accepted)

\* C5: every parsed line is handed to sendToQuickwitWithRetry in at most one
\* batch, and every batch handed over has at most batchSize entries, in the
\* catch-up phase and in the tail phase.
C5_BatchesBounded ==
    /\ \A k \in DOMAIN calls : Len(calls[k].batch) <= BatchSize
    /\ \A k, l \in DOMAIN calls :
          k # l => Range(calls[k].batch) \cap Range(calls[l].batch) = {}

\* C10: the entries accepted by the server, in arrival order within each POST
\* body and across successive POSTs (retries included), form a subsequence of
\* the file's line order.
C10_DeliveryOrder == IsSubseq(Accepted, FileOrder)

\* C10 witness: entries were accepted from two calls, one of them after a
\* failed attempt, and a parse error lies between accepted lines
C10_Witness ==
    /\ Len(Accepted) >= 3
    /\ \E k, l \in DOMAIN calls :
          /\ k < l
          /\ calls[k].err = "nil" /\ Len(calls[k].posts) > 1
          /\ calls[l].err = "nil" /\ calls[l].from = "tail"
    /\ \E i \in DOMAIN file : ~file[i].ok /\ i < Len(file)

(***************************************************************************)
(* Observations on a query run.                                            *)
(***************************************************************************)
\* the driver is past its error check
DriverChecked == dpc \in {"output", "exited"}

\* the run completed without error
RunSucceeded == dpc = "exited" /\ exitCode = 0

\* the (user, provider) pairs observed in the responses: a provider bucket
\* under a user bucket that has a non-empty daily bucket (a histogram bucket
\* with doc_count 0 contributes nothing)
ObservedPairs ==
    {pr \in UserNames \X ProviderNames :
        \E a \in answers : \E i \in DOMAIN a.buckets :
            /\ a.buckets[i].key = pr[1]
            /\ \E j \in DOMAIN a.buckets[i].providers : a.buckets[i].providers[j] = pr[2]
            /\ \E l \in DOMAIN a.buckets[i].daily : a.buckets[i].daily[l].doc_count # 0}

\* C2: when two or more workers observe a request error, each failing worker
\* makes one non-blocking send to the size-1 error channel (it is never
\* blocked) and exits; after the join the driver observes exactly one error,
\* exits non-zero and writes no output.
C2_FirstErrorWins ==
    /\ Len(errChan) <= 1
    /\ \A w \in Workers : wpc[w] = "failed" => ENABLED WorkerSendErr(w)
    /\ (DriverChecked /\ Cardinality(failed) >= 2) =>
          /\ dpc = "exited"
          /\ observedErrs = 1
          /\ exitCode # 0 /\ exitCode # -1
          /\ ~outputWritten

\* C2 witness: two workers failed, the second finding the error channel
\* full, and the driver has taken the one error and finished
C2_Witness ==
    /\ dpc = "exited"
    /\ Cardinality(failed) >= 2
    /\ observedErrs = 1
    /\ errChan = <<>>

\* C3: resultChan is closed only after every worker has exited (no worker
\* sends on a closed channel), the merger finishes only after that close,
\* and the driver checks errChan, reads Result and writes output only after
\* the merger has finished.
C3_JoinOrder ==
    /\ resultClosed => \A w \in Workers : wpc[w] = "exited"
    /\ ~panicked
    /\ mpc \in {"final", "done"} => resultClosed
    /\ dpc \in {"checkErr", "output", "exited"} => mpc = "done"
    /\ dpc = "processDone" => \A w \in Workers : wpc[w] = "exited"
    /\ outputWritten => mpc = "done"

\* C3 witness: a run in which entries were merged has written its output
C3_Witness ==
    /\ outputWritten
    /\ processedDays >= 2
    /\ result # EmptyResult(tool)

\* C6: after an accept run that completes without error, U is in
\* Providers[P].Users exactly when P is in Users[U].Providers, exactly when
\* (U, P) was observed in a response; every user of a provider is a key of
\* Users.
C6_CrossMapsExact ==
    (tool = "accept" /\ RunSucceeded) =>
        /\ \A u \in UserNames, p \in ProviderNames :
              LET inProv == p \in DOMAIN result.Providers /\ u \in result.Providers[p]
                  inUser == u \in DOMAIN result.Users /\ p \in result.Users[u]
              IN  /\ inProv <=> inUser
                  /\ inProv <=> <<u, p>> \in ObservedPairs
        /\ \A p \in DOMAIN result.Providers : result.Providers[p] \subseteq DOMAIN result.Users
        /\ DOMAIN result.Users \subseteq UserNames
        /\ DOMAIN result.Providers \subseteq ProviderNames

\* C6 witness: a successful accept run that saw alice and bob, bob once with
\* providers and once with an empty daily histogram
C6_Witness ==
    /\ tool = "accept" /\ RunSucceeded
    /\ Cardinality(ObservedPairs) = 3
    /\ \E a \in answers : \E i \in DOMAIN a.buckets : a.buckets[i].daily[1].doc_count = 0

\* C7: after an sp run that completes without error, every station listed in
\* Realms[r].Stations is a key of Stations, and u is listed in Realms[r].Users
\* exactly when some station holds a UserActivity for u with realm label r.
C7_StationsRealmsConsistent ==
    (tool = "sp" /\ RunSucceeded) =>
        /\ \A r \in DOMAIN result.Realms :
              result.Realms[r].Stations \subseteq DOMAIN result.Stations
        /\ \A r \in {"r1", "r2"}, u \in UserNames :
              (r \in DOMAIN result.Realms /\ u \in result.Realms[r].Users)
                  <=> \E s \in DOMAIN result.Stations :
                         /\ u \in DOMAIN result.Stations[s].Users
                         /\ result.Stations[s].Users[u].Realm = r

\* C9: Result is written only by the merger and only while it holds the
\* mutex: a step that changes Result is a step of the merger inside its
\* critical section, and no worker or driver step changes it.
C9_ResultOwnedByMerger ==
    [][result' # result =>
          /\ mu = "merger"
          /\ mpc \in {"update", "final"}
          /\ mpc' # mpc
          /\ wpc' = wpc
          /\ dpc' = dpc]_vars

\* C9 witness: Result has been written while a worker is still sending
C9_Witness ==
    /\ tool = "sp"
    /\ result # EmptyResult("sp")
    /\ \E w \in Workers : wpc[w] = "emit" /\ pending[w] # <<>>

(***************************************************************************)
(* Observations on the range sharder.                                      *)
(***************************************************************************)
\* the instant t lies in the half-open whole-second interval of Job j
InJob(t, j) == j.StartTimestamp <= t.sec /\ t.sec < j.EndTimestamp

\* the instant t lies in [startDate, endDate)
InRange(t) == ~Before(t, startDate) /\ Before(t, endDate)

\* the instants at and next to every boundary of the range and of the Jobs
ProbeInstants ==
    LET secs == {startDate.sec, endDate.sec}
                    \cup {enqueued[i].StartTimestamp : i \in DOMAIN enqueued}
                    \cup {enqueued[i].EndTimestamp : i \in DOMAIN enqueued}
    IN  {Time(s + d, n) : s \in secs, d \in {-1, 0, 1}, n \in {0, EndNsec}}

\* C4: the Jobs enqueued for a range each satisfy start < end, are pairwise
\* disjoint, and their union is exactly [startDate, endDate).
C4_JobsCoverRange ==
    jobsClosed =>
        /\ \A i \in DOMAIN enqueued :
              enqueued[i].StartTimestamp < enqueued[i].EndTimestamp
        /\ \A i, j \in DOMAIN enqueued :
              i # j => \A t \in ProbeInstants : ~(InJob(t, enqueued[i]) /\ InJob(t, enqueued[j]))
        /\ \A t \in ProbeInstants :
              InRange(t) <=> \E i \in DOMAIN enqueued : InJob(t, enqueued[i])

(***************************************************************************)
(* Observations on the output documents.                                   *)
(***************************************************************************)
\* C8: two runs over identical remote state produce the same output document
\* (byte-identical JSON), whatever the map iteration orders of either run.
C8_OutputDeterministic ==
    (outputs[1] # <<>> /\ outputs[2] # <<>>) => outputs[1] = outputs[2]

(***************************************************************************)
(* Observations on single calls of sendToQuickwitWithRetry.                *)
(***************************************************************************)
\* the call c was never answered 200
NeverOk(c) == \A k \in DOMAIN c.posts : c.posts[k].status # StatusOK

\* C11: one call of sendToQuickwitWithRetry issues at most MaxRetries POSTs
\* whatever mix of 413 and other failures it is answered with; a call that is
\* never answered 200 has returned, and returned an error; the call that ran
\* out of attempts issued exactly MaxRetries POSTs
C11_RetriesBounded ==
    \A k \in DOMAIN calls :
        LET c == calls[k]
        IN  /\ Len(c.posts) <= MaxRetries
            /\ NeverOk(c) => c.err # "nil"
            /\ c.err = "failed after attempts" => Len(c.posts) = MaxRetries
            /\ c.err = "nil" => c.posts[Len(c.posts)].status = StatusOK

\* C11 witness: a call answered with both a 413 and another failure, never
\* with 200, that used up all its attempts
C11_Witness ==
    \E k \in DOMAIN calls :
        LET c == calls[k]
        IN  /\ NeverOk(c)
            /\ c.err = "failed after attempts"
            /\ \E a, b \in DOMAIN c.posts :
                   /\ c.posts[a].status = StatusTooLarge
                   /\ c.posts[b].status = 500

(***************************************************************************)
(* log2quickwit v1.5.8: the line parser.  A string is a sequence of        *)
(* one-character strings; indices are Go's (from 0, -1 for "not found").   *)
(***************************************************************************)
\* the value standing for a run-time panic (slice bounds out of range)
Panic == <<"PANIC">>

\* s[a:b] of Go: panics unless 0 <= a <= b <= len(s)
Slice(s, a, b) ==
    IF s = Panic THEN Panic
    ELSE IF 0 <= a /\ a <= b /\ b <= Len(s) THEN SubSeq(s, a + 1, b) ELSE Panic

\* s[a:]
SliceFrom(s, a) == Slice(s, a, Len(s))

\* sub occurs in s at (0-based) index i
OccursAt(s, sub, i) ==
    /\ i >= 0
    /\ i + Len(sub) <= Len(s)
    /\ SubSeq(s, i + 1, i + Len(sub)) = sub

\* strings.Index
Index(s, sub) ==
    LET I == {i \in 0..Len(s) : OccursAt(s, sub, i)}
    IN  IF I = {} THEN -1 ELSE CHOOSE i \in I : \A j \in I : i <= j

\* strings.LastIndex
LastIndex(s, sub) ==
    LET I == {i \in 0..Len(s) : OccursAt(s, sub, i)}
    IN  IF I = {} THEN -1 ELSE CHOOSE i \in I : \A j \in I : i >= j

\* strings.IndexAny: the first index of any of the characters of chars
IndexAny(s, chars) ==
    LET I == {i \in 0..(Len(s) - 1) : s[i + 1] \in chars}
    IN  IF I = {} THEN -1 ELSE CHOOSE i \in I : \A j \in I : i <= j

\* strings.Contains
Contains(s, sub) == Index(s, sub) # -1

\* the white space of strings.Fields
IsSpace(c) == c \in {" ", "\t"}

RECURSIVE Fields(_)
\* strings.Fields: the maximal runs of non-space characters, in order
Fields(s) ==
    IF s = <<>> THEN <<>>
    ELSE IF IsSpace(Head(s)) THEN Fields(Tail(s))
    ELSE LET n == IF \E i \in DOMAIN s : IsSpace(s[i])
                  THEN (CHOOSE i \in DOMAIN s :
                            /\ IsSpace(s[i])
                            /\ \A j \in 1..(i - 1) : ~IsSpace(s[j])) - 1
                  ELSE Len(s)
         IN  <<SubSeq(s, 1, n)>> \o Fields(SubSeq(s, n + 1, Len(s)))

RECURSIVE Join(_, _)
\* strings.Join
Join(ps, sep) ==
    IF ps = <<>> THEN <<>>
    ELSE IF Len(ps) = 1 THEN ps[1]
    ELSE ps[1] \o sep \o Join(Tail(ps), sep)

RECURSIVE TrimLeft(_)
TrimLeft(s) == IF s # <<>> /\ Head(s) = " " THEN TrimLeft(Tail(s)) ELSE s

RECURSIVE TrimRight(_)
TrimRight(s) ==
    IF s # <<>> /\ s[Len(s)] = " " THEN TrimRight(SubSeq(s, 1, Len(s) - 1)) ELSE s

\* strings.Trim(s, " ")
Trim(s) == IF s = Panic THEN Panic ELSE TrimRight(TrimLeft(s))

\* the string literals of parseLine, extractMessageType and parseAdditionalFields
S_user == <<"u", "s", "e", "r", " ">>

S_stationid == <<"s", "t", "a", "t", "i", "o", "n", "i", "d", " ">>

S_from == <<" ", "f", "r", "o", "m", " ">>

S_to == <<" ", "t", "o", " ">>

S_AccessAccept == <<"A", "c", "c", "e", "s", "s", "-", "A", "c", "c", "e", "p", "t">>

S_AccessReject == <<"A", "c", "c", "e", "s", "s", "-", "R", "e", "j", "e", "c", "t">>

S_AccessChallenge == <<"A", "c", "c", "e", "s", "s", "-", "C", "h", "a", "l", "l", "e", "n", "g", "e">>

S_AccountingRequest == <<"A", "c", "c", "o", "u", "n", "t", "i", "n", "g", "-", "R", "e", "q", "u", "e", "s", "t">>

S_AccountingResponse == <<"A", "c", "c", "o", "u", "n", "t", "i", "n", "g", "-", "R", "e", "s", "p", "o", "n", "s", "e">>

S_Unknown == <<"U", "n", "k", "n", "o", "w", "n">>

Digits == <<"0", "1", "2", "3", "4", "5", "6", "7", "8", "9">>

IsDigit(c) == \E i \in DOMAIN Digits : Digits[i] = c

DigitValue(c) == (CHOOSE i \in DOMAIN Digits : Digits[i] = c) - 1

\* the two-digit number at (1-based) positions i, i + 1 of s
TwoDigits(s, i) == 10 * DigitValue(s[i]) + DigitValue(s[i + 1])

\* time.Parse with layout "2006-01-02" succeeds on s (the day is checked
\* against 31 only)
IsDate(s) ==
    /\ Len(s) = 10
    /\ \A i \in {1, 2, 3, 4, 6, 7, 9, 10} : IsDigit(s[i])
    /\ s[5] = "-" /\ s[8] = "-"
    /\ TwoDigits(s, 6) \in 1..12
    /\ TwoDigits(s, 9) \in 1..31

\* the clock part "15:04:05"
IsClock(s) ==
    /\ Len(s) = 8
    /\ \A i \in {1, 2, 4, 5, 7, 8} : IsDigit(s[i])
    /\ s[3] = ":" /\ s[6] = ":"
    /\ TwoDigits(s, 1) \in 0..23
    /\ TwoDigits(s, 4) \in 0..59
    /\ TwoDigits(s, 7) \in 0..59

\* time.Parse(layout, s) succeeds for the date-time layouts with separator sep
IsDateTime(s, sep) ==
    /\ Len(s) = 19
    /\ IsDate(SubSeq(s, 1, 10))
    /\ s[11] = sep
    /\ IsClock(SubSeq(s, 12, 19))

\* mutant: the timestamp token is stored as it stands in the line, not
\* formatted
parseTimestamp_Raw(timestampStr) ==
    IF IsDateTime(timestampStr, "T") \/ IsDateTime(timestampStr, " ")
       \/ IsDate(timestampStr)
    THEN [err |-> "nil", timestamp |-> timestampStr]
    ELSE [err |-> "unable to parse timestamp", timestamp |-> <<>>]

\* parseTimestamp: the three layouts in turn; the result is already
\* formatted as parseLine formats it (time.RFC3339, UTC)
parseTimestamp(timestampStr) ==
    IF IsDateTime(timestampStr, "T")
    THEN [err |-> "nil", timestamp |-> timestampStr \o <<"Z">>]
    ELSE IF IsDateTime(timestampStr, " ")
    THEN [err |-> "nil",
          timestamp |-> SubSeq(timestampStr, 1, 10) \o <<"T">>
                        \o SubSeq(timestampStr, 12, 19) \o <<"Z">>]
    ELSE IF IsDate(timestampStr)
    THEN [err |-> "nil",
          timestamp |-> timestampStr
                        \o <<"T", "0", "0", ":", "0", "0", ":", "0", "0", "Z">>]
    ELSE [err |-> "unable to parse timestamp", timestamp |-> <<>>]

extractMessageType(message) ==
    IF Contains(message, S_AccessAccept) THEN S_AccessAccept
    ELSE IF Contains(message, S_AccessReject) THEN S_AccessReject
    ELSE IF Contains(message, S_AccessChallenge) THEN S_AccessChallenge
    ELSE IF Contains(message, S_AccountingRequest) THEN S_AccountingRequest
    ELSE IF Contains(message, S_AccountingResponse) THEN S_AccountingResponse
    ELSE S_Unknown

\* mutant: the end index found in the tail of the message is used as an
\* index into the whole message
FieldAfter_AbsoluteEnd(message, at, klen, stops, old) ==
    IF at = -1 THEN old
    ELSE LET endIndex == IndexAny(SliceFrom(message, at + klen), stops)
         IN  IF endIndex # -1
             THEN Slice(message, at + klen, endIndex)
             ELSE SliceFrom(message, at + klen)

\* the pattern shared by the username, stationid, realm and provider
\* extraction: the text after the keyword at index at, up to the first of
\* the characters of stops
FieldAfter(message, at, klen, stops, old) ==
    IF at = -1 THEN old
    ELSE LET endIndex == IndexAny(SliceFrom(message, at + klen), stops)
         IN  IF endIndex # -1
             THEN Slice(message, at + klen, at + klen + endIndex)
             ELSE SliceFrom(message, at + klen)

\* parseAdditionalFields: the fields it sets on *entry
parseAdditionalFields(entry, message) ==
    LET ipIndex == LastIndex(message, <<"(">>)
        endIndex == LastIndex(message, <<")">>)
    IN  [entry EXCEPT
            !.MessageType = IF @ = <<>> THEN extractMessageType(message) ELSE @,
            !.Username = FieldAfter(message, Index(message, S_user), 5,
                                    {" ", "\n"}, @),
            !.StationID = FieldAfter(message, Index(message, S_stationid), 10,
                                     {" ", "\n"}, @),
            !.Realm = FieldAfter(message, Index(message, S_from), 6,
                                 {" ", "\n"}, @),
            !.ServiceProvider = FieldAfter(message, LastIndex(message, S_to), 4,
                                           {" ", "(", "\n"}, @),
            !.DestinationIP =
                IF ipIndex # -1 /\ endIndex # -1 /\ endIndex > ipIndex
                THEN Trim(Slice(message, ipIndex + 1, endIndex))
                ELSE @]

\* a LogEntry with every field at its zero value but FullMessage
NewLogEntry(line) ==
    [FullMessage |-> line, Timestamp |-> <<>>, Hostname |-> <<>>, Process |-> <<>>,
     PID |-> <<>>, MessageType |-> <<>>, Username |-> <<>>, StationID |-> <<>>,
     Realm |-> <<>>, ServiceProvider |-> <<>>, DestinationIP |-> <<>>]

\* parseLine: the error it returns ("nil" for none) and the entry
parseLine(line) ==
    LET entry == NewLogEntry(line)
        parts == Fields(line)
    IN  IF Len(parts) < 4
        THEN [err |-> "invalid log format: not enough parts", entry |-> entry]
        ELSE
        LET ts == parseTimestamp(parts[1])
        IN  IF ts.err # "nil"
            THEN [err |-> "invalid timestamp", entry |-> entry]
            ELSE
            LET processWithPID == parts[3]
                pidStart == Index(processWithPID, <<"[">>)
                pidEnd == Index(processWithPID, <<"]">>)
                hasPid == pidStart # -1 /\ pidEnd # -1 /\ pidEnd > pidStart
                pidStr == Slice(processWithPID, pidStart + 1, pidEnd)
                e1 == [entry EXCEPT
                         !.Timestamp = ts.timestamp,
                         !.Hostname = parts[2],
                         !.Process = IF hasPid THEN Slice(processWithPID, 0, pidStart)
                                     ELSE processWithPID,
                         !.PID = IF hasPid
                                 THEN IF pidStr = Panic THEN Panic
                                      ELSE IF pidStr # <<>>
                                              /\ \A i \in DOMAIN pidStr : IsDigit(pidStr[i])
                                      THEN pidStr ELSE <<>>
                                 ELSE <<>>]
                messageContent == Join(SubSeq(parts, 4, Len(parts)), <<" ">>)
                e2 == [e1 EXCEPT !.MessageType = extractMessageType(messageContent)]
            IN  [err |-> "nil", entry |-> parseAdditionalFields(e2, messageContent)]

\* parseLine panicked on the way to the result r
ParsePanicked(r) == \E f \in DOMAIN r.entry : r.entry[f] = Panic

(***************************************************************************)
(* The lines fed to the parser.                                            *)
(***************************************************************************)
\* a complete Access-Accept line
L_Full ==
    <<"2", "0", "2", "4", "-", "0", "1", "-", "0", "2", "T", "1", "5", ":", "0", "4", ":", "0", "5", " ", "h", " ", "p", "[", "7", "]", " ", "A", "c", "c", "e", "s", "s", "-", "A", "c", "c", "e", "p", "t", " ", "u", "s", "e", "r", " ", "a", " ", "s", "t", "a", "t", "i", "o", "n", "i", "d", " ", "X", " ", "f", "r", "o", "m", " ", "r", " ", "t", "o", " ", "s", " ", "(", "1", ")">>

\* a date-only timestamp; the message ends in the username
L_DateOnly ==
    <<"2", "0", "2", "4", "-", "0", "1", "-", "0", "2", " ", "h", " ", "p", " ", "u", "s", "e", "r", " ", "a">>

\* three tokens
L_Short ==
    <<"h", " ", "p", " ", "m">>

\* the empty line
L_Empty ==
    <<>>

\* four tokens, the first not a timestamp
L_BadStamp ==
    <<"g", "a", "r", "b", "a", "g", "e", " ", "h", " ", "p", " ", "m">>

\* a date with month 13
L_Month13 ==
    <<"2", "0", "2", "4", "-", "1", "3", "-", "0", "2", " ", "h", " ", "p", " ", "m">>

\* brackets in the wrong order, a bare keyword as message
L_PidReversed ==
    <<"2", "0", "2", "4", "-", "0", "1", "-", "0", "2", " ", "h", " ", "]", "p", "[", " ", "t", "o">>

\* an open PID bracket, parentheses in the wrong order
L_Parens ==
    <<"2", "0", "2", "4", "-", "0", "1", "-", "0", "2", " ", "h", " ", "p", "[", " ", "x", " ", ")", " ", "(">>

\* leading, repeated and trailing spaces, an empty PID
L_Spaces ==
    <<" ", " ", "2", "0", "2", "4", "-", "0", "1", "-", "0", "2", " ", " ", " ", "h", " ", " ", "p", "[", "]", " ", " ", "u", "s", "e", "r", " ">>

\* a timestamp whose date and clock are separated by a space
L_SpaceStamp ==
    <<"2", "0", "2", "4", "-", "0", "1", "-", "0", "2", " ", "1", "5", ":", "0", "4", ":", "0", "5", " ", "h", " ", "p">>

RawLines ==
    {L_Full, L_DateOnly, L_Short, L_Empty,
     L_BadStamp, L_Month13, L_PidReversed, L_Parens,
     L_Spaces, L_SpaceStamp}

\* number of lines of the log file in the runs of the parser
MaxRawLines == 2

\* the log writer appends one complete line of text
AppendRawLine ==
    /\ Len(file) < MaxRawLines
    /\ \E text \in RawLines :
          file' = Append(file, [id |-> Len(file) + 1,
                                ok |-> parseLine(text).err = "nil",
                                text |-> text])
    /\ events' = IF phase = "tail" THEN events + 1 ELSE events
    /\ UNCHANGED <<lastPosition, scanPos, entries, phase, calls>>
    /\ UNCHANGED <<queryVars, outVars>>

\* the parser under processExistingData: the file is read to its end once
NextParse ==
    \/ AppendRawLine
    \/ ExistingDataScan
    \/ ExistingDataEOF

SpecParse == InitIngest /\ [][NextParse]_vars

(***************************************************************************)
(* Observations on the parser.                                             *)
(***************************************************************************)
\* the number of whitespace-separated tokens of s, counted by token starts
TokenCount(s) ==
    Cardinality({i \in DOMAIN s : ~IsSpace(s[i]) /\ (i = 1 \/ IsSpace(s[i - 1]))})

\* the first token of s (s has one)
FirstToken(s) == Fields(s)[1]

\* line k of the file was handed to sendToQuickwitWithRetry in call c
HandedIn(k, c) == \E j \in DOMAIN calls[c].batch : calls[c].batch[j] = k

\* the errors parseLine returns
ParseErrors == {"invalid log format: not enough parts", "invalid timestamp"}

\* C12: for every line parseLine returns an entry or one of its two errors
\* and does not panic; a line of fewer than four tokens, or one whose first
\* token no layout of parseTimestamp accepts, is an error; no line in error
\* is ever handed to the transport, and once the reader has consumed the
\* file every other line, the ones after a line in error included, has been
\* handed to the transport exactly once
C12_ParseErrorsSkipped ==
    /\ \A k \in DOMAIN file :
          LET text == file[k].text
              r == parseLine(text)
          IN  /\ ~ParsePanicked(r)
              /\ r.err \in ParseErrors \cup {"nil"}
              /\ TokenCount(text) < 4 => r.err = "invalid log format: not enough parts"
              /\ (TokenCount(text) >= 4 /\ parseTimestamp(FirstToken(text)).err # "nil")
                    => r.err = "invalid timestamp"
              /\ r.err = "nil" => r.entry.FullMessage = text /\ r.entry.Timestamp # <<>>
              /\ r.err # "nil" => \A c \in DOMAIN calls : ~HandedIn(k, c)
    /\ (phase = "watchAdd" /\ lastPosition = Len(file))
          => \A k \in DOMAIN file :
                parseLine(file[k].text).err = "nil"
                    => Cardinality({c \in DOMAIN calls : HandedIn(k, c)}) = 1

\* C12 witness: a line in error (too short or with a bad timestamp) is
\* followed by a well-formed line whose fields were extracted, and that
\* line has been handed to the transport
C12_Witness ==
    /\ Len(file) = 2
    /\ file[1].text \in {L_Short, L_BadStamp}
    /\ file[2].text = L_Full
    /\ parseLine(L_Full).entry.Username = <<"a">>
    /\ parseLine(L_Full).entry.StationID = <<"X">>
    /\ \E c \in DOMAIN calls : HandedIn(2, c) /\ ~HandedIn(1, c)

(***************************************************************************)
(* Decoded JSON (interface{} values) and the fold of a raw search          *)
(* response, with Go's type assertions.                                    *)
(***************************************************************************)
\* a decoded JSON value: its dynamic type t and its value v
JNull == [t |-> "null", v |-> 0]

JStr(s) == [t |-> "string", v |-> s]

JNum(n) == [t |-> "float64", v |-> n]

JArr(a) == [t |-> "array", v |-> a]

\* a JSON object with the fields of the record (or function) f
JMap(f) == [t |-> "map", v |-> f]

\* x.(map[string]interface{}), x.([]interface{}), x.(string), x.(float64):
\* the ok of the two-value form; the one-value form panics when it is false
IsMap(x) == x.t = "map"

IsArr(x) == x.t = "array"

IsString(x) == x.t = "string"

IsFloat(x) == x.t = "float64"

\* m[k] on a map[string]interface{}: nil when the key is absent
Get(m, k) == IF k \in DOMAIN m.v THEN m.v[k] ELSE JNull

\* the outcome of a loop body or of a fold: the entries sent on resultChan
\* and whether it panicked
Sent(es) == [es |-> es, panic |-> FALSE]

Panics == [es |-> <<>>, panic |-> TRUE]

RECURSIVE Chain(_)
\* the loop bodies rs run in order; the first panic ends the loop
Chain(rs) ==
    IF rs = <<>> THEN Sent(<<>>)
    ELSE IF Head(rs).panic THEN Head(rs)
    ELSE LET r == Chain(Tail(rs))
         IN  [es |-> Head(rs).es \o r.es, panic |-> r.panic]

\* the date-histogram loop shared by processUserProviderDaily (accept) and
\* processUserAuthTimes (sp): agg is bucket["daily"] or bucket["auth_times"]
HistogramLoop(agg, username, provider, realm, stationID) ==
    IF ~IsMap(agg) THEN Sent(<<>>)
    ELSE IF ~IsArr(Get(agg, "buckets")) THEN Sent(<<>>)
    ELSE LET bs == Get(agg, "buckets").v
         IN  Chain([i \in DOMAIN bs |->
                IF ~IsMap(bs[i]) THEN Sent(<<>>)
                ELSE IF ~IsFloat(Get(bs[i], "doc_count")) THEN Panics
                ELSE IF Get(bs[i], "doc_count").v = 0 THEN Sent(<<>>)
                ELSE IF ~IsFloat(Get(bs[i], "key")) THEN Panics
                ELSE Sent(<<LogEntry(username, provider, realm, stationID,
                                     Get(bs[i], "key").v \div 1000)>>)])

\* processUserBucket of eduroam-accept on a decoded bucket
RawUserBucket(bucket, username) ==
    IF ~IsMap(Get(bucket, "providers")) THEN Sent(<<>>)
    ELSE IF ~IsArr(Get(Get(bucket, "providers"), "buckets")) THEN Sent(<<>>)
    ELSE LET ps == Get(Get(bucket, "providers"), "buckets").v
         IN  Chain([i \in DOMAIN ps |->
                IF ~IsMap(ps[i]) THEN Sent(<<>>)
                ELSE IF ~IsString(Get(ps[i], "key")) THEN Panics
                ELSE HistogramLoop(Get(bucket, "daily"), username,
                                   Get(ps[i], "key").v, "", "")])

\* processStationBucket of eduroam-sp on a decoded bucket
RawStationBucket(bucket, stationID) ==
    IF ~IsMap(Get(bucket, "by_user")) THEN Sent(<<>>)
    ELSE IF ~IsArr(Get(Get(bucket, "by_user"), "buckets")) THEN Sent(<<>>)
    ELSE LET us == Get(Get(bucket, "by_user"), "buckets").v
         IN  Chain([i \in DOMAIN us |->
                IF ~IsMap(us[i]) THEN Sent(<<>>)
                ELSE IF ~IsString(Get(us[i], "key")) THEN Panics
                ELSE LET byRealm == Get(us[i], "by_realm")
                     IN  IF ~IsMap(byRealm) THEN Sent(<<>>)
                         ELSE IF ~IsArr(Get(byRealm, "buckets")) THEN Sent(<<>>)
                         ELSE IF Len(Get(byRealm, "buckets").v) = 0 THEN Sent(<<>>)
                         ELSE LET realmBucket == Get(byRealm, "buckets").v[1]
                              IN  IF ~IsMap(realmBucket) THEN Sent(<<>>)
                                  ELSE IF ~IsString(Get(realmBucket, "key")) THEN Panics
                                  ELSE HistogramLoop(Get(us[i], "auth_times"),
                                                     Get(us[i], "key").v, "",
                                                     Get(realmBucket, "key").v,
                                                     stationID)])

\* the name of the top aggregation of each tool
TopAgg(t) == IF t = "accept" THEN "unique_users" ELSE "by_station"

\* processAggregations on the decoded response: an error when the
\* aggregation path is missing, else the loop over the top-level buckets
RawAggregations(t, res) ==
    IF ~IsMap(Get(res, "aggregations"))
    THEN [err |-> "no aggregations in response", es |-> <<>>, panic |-> FALSE]
    ELSE IF ~IsMap(Get(Get(res, "aggregations"), TopAgg(t)))
    THEN [err |-> "no top aggregation", es |-> <<>>, panic |-> FALSE]
    ELSE IF ~IsArr(Get(Get(Get(res, "aggregations"), TopAgg(t)), "buckets"))
    THEN [err |-> "no buckets in top aggregation", es |-> <<>>, panic |-> FALSE]
    ELSE LET bs == Get(Get(Get(res, "aggregations"), TopAgg(t)), "buckets").v
             r == Chain([i \in DOMAIN bs |->
                     IF ~IsMap(bs[i]) THEN Sent(<<>>)
                     ELSE IF ~IsString(Get(bs[i], "key")) THEN Panics
                     ELSE IF ~IsFloat(Get(bs[i], "doc_count")) THEN Panics
                     ELSE IF t = "accept"
                          THEN RawUserBucket(bs[i], Get(bs[i], "key").v)
                          ELSE RawStationBucket(bs[i], Get(bs[i], "key").v)])
         IN  [err |-> "nil", es |-> r.es, panic |-> r.panic]

\* an HTTP response: its status and its body, decoded (<<>> when the body
\* is not JSON)
HttpResponse(status, decodes, body) ==
    [status |-> status, decodes |-> decodes, body |-> body]

\* sendQuickwitRequest: the error it returns ("nil" for none); only
\* eduroam-accept looks at the error field, and only at a string
sendQuickwitRequest(t, resp) ==
    IF resp.status # StatusOK THEN "quickwit error (status)"
    ELSE IF ~resp.decodes THEN "error decoding response"
    ELSE IF t = "accept" /\ IsString(Get(resp.body, "error")) THEN "quickwit error"
    ELSE "nil"

\* worker: the request, then the fold of its result
worker(t, resp) ==
    LET err == sendQuickwitRequest(t, resp)
    IN  IF err # "nil" THEN [err |-> err, es |-> <<>>, panic |-> FALSE]
        ELSE RawAggregations(t, resp.body)

(***************************************************************************)
(* The raw responses of the search endpoint and the run over them.         *)
(***************************************************************************)
\* a terms or histogram aggregation with the bucket list bs
Agg(bs) == JMap([buckets |-> JArr(bs)])

\* a histogram bucket with n documents at second sec
RawLeaf(sec, n) == JMap([key |-> JNum(sec * 1000), doc_count |-> JNum(n)])

\* a terms bucket that carries only its key
KeyBucket(k) == JMap([key |-> JStr(k)])

\* the decoded body whose aggregation path is complete, with top-level
\* bucket list bs
RawBody(t, bs) ==
    IF t = "accept"
    THEN JMap([aggregations |-> JMap([unique_users |-> Agg(bs)])])
    ELSE JMap([aggregations |-> JMap([by_station |-> Agg(bs)])])

\* the top-level buckets the accept-by-realm endpoint may answer with
AcceptBuckets(d) ==
    [goodA |-> JMap([key |-> JStr("alice"), doc_count |-> JNum(3),
                     providers |-> Agg(<<KeyBucket("sp1")>>),
                     daily |-> Agg(<<RawLeaf(d, 3)>>)]),
     goodB |-> JMap([key |-> JStr("bob"), doc_count |-> JNum(1),
                     providers |-> Agg(<<KeyBucket("sp1"), KeyBucket("sp2")>>),
                     daily |-> Agg(<<RawLeaf(d, 1)>>)]),
     zero |-> JMap([key |-> JStr("bob"), doc_count |-> JNum(0),
                    providers |-> Agg(<<KeyBucket("sp2")>>),
                    daily |-> Agg(<<RawLeaf(d, 0)>>)]),
     nonMap |-> JStr("junk"),
     noKey |-> JMap([doc_count |-> JNum(3),
                     providers |-> Agg(<<KeyBucket("sp1")>>),
                     daily |-> Agg(<<RawLeaf(d, 3)>>)]),
     noCount |-> JMap([key |-> JStr("alice"),
                       providers |-> Agg(<<KeyBucket("sp1")>>),
                       daily |-> Agg(<<RawLeaf(d, 3)>>)]),
     leafNonMap |-> JMap([key |-> JStr("alice"), doc_count |-> JNum(3),
                          providers |-> Agg(<<JNum(7), KeyBucket("sp1")>>),
                          daily |-> Agg(<<JStr("junk"), RawLeaf(d, 3)>>)]),
     leafNoCount |-> JMap([key |-> JStr("alice"), doc_count |-> JNum(3),
                           providers |-> Agg(<<KeyBucket("sp1")>>),
                           daily |-> Agg(<<JMap([key |-> JNum(d * 1000)])>>)]),
     provNoKey |-> JMap([key |-> JStr("alice"), doc_count |-> JNum(3),
                         providers |-> Agg(<<JMap([doc_count |-> JNum(3)])>>),
                         daily |-> Agg(<<RawLeaf(d, 3)>>)])]

\* a by_user bucket of the accept-by-SP shape
RawSpUser(u, realmBuckets, leaves) ==
    JMap([key |-> JStr(u), by_realm |-> Agg(realmBuckets), auth_times |-> Agg(leaves)])

\* the top-level buckets the accept-by-SP endpoint may answer with
SpBuckets(d) ==
    [goodA |-> JMap([key |-> JStr("S1"), doc_count |-> JNum(3),
                     by_user |-> Agg(<<RawSpUser("alice", <<KeyBucket("r1")>>,
                                                 <<RawLeaf(d + 60, 1)>>)>>)]),
     goodB |-> JMap([key |-> JStr("S2"), doc_count |-> JNum(1),
                     by_user |-> Agg(<<RawSpUser("bob", <<KeyBucket("r2")>>,
                                                 <<RawLeaf(d, 1)>>)>>)]),
     zero |-> JMap([key |-> JStr("S2"), doc_count |-> JNum(0),
                    by_user |-> Agg(<<RawSpUser("bob", <<KeyBucket("r2")>>,
                                                <<RawLeaf(d, 0)>>)>>)]),
     nonMap |-> JStr("junk"),
     noKey |-> JMap([doc_count |-> JNum(3),
                     by_user |-> Agg(<<RawSpUser("alice", <<KeyBucket("r1")>>,
                                                 <<RawLeaf(d, 1)>>)>>)]),
     noCount |-> JMap([key |-> JStr("S1"),
                       by_user |-> Agg(<<RawSpUser("alice", <<KeyBucket("r1")>>,
                                                   <<RawLeaf(d, 1)>>)>>)]),
     leafNonMap |-> JMap([key |-> JStr("S1"), doc_count |-> JNum(3),
                          by_user |-> Agg(<<JNum(7),
                                            RawSpUser("alice", <<KeyBucket("r1")>>,
                                                      <<JStr("junk"), RawLeaf(d, 1)>>)>>)]),
     leafNoCount |-> JMap([key |-> JStr("S1"), doc_count |-> JNum(3),
                           by_user |-> Agg(<<RawSpUser("alice", <<KeyBucket("r1")>>,
                                              <<JMap([key |-> JNum(d * 1000)])>>)>>)]),
     provNoKey |-> JMap([key |-> JStr("S1"), doc_count |-> JNum(3),
                         by_user |-> Agg(<<RawSpUser("alice",
                                              <<JMap([doc_count |-> JNum(3)])>>,
                                              <<RawLeaf(d, 1)>>)>>)])]

RawBuckets(t, d) == IF t = "accept" THEN AcceptBuckets(d) ELSE SpBuckets(d)

\* the top-level bucket lists: empty, one bucket, or a bucket followed by
\* a well-formed one
BucketLists(t, d) ==
    LET B == RawBuckets(t, d)
    IN  {<<>>} \cup {<<B[k]>> : k \in DOMAIN B}
               \cup {<<B[k], B.goodB>> : k \in DOMAIN B \ {"goodB"}}

\* the responses of the search endpoint to the Job starting at second d
RawResponses(t, d) ==
    LET full == RawBody(t, <<RawBuckets(t, d).goodA>>)
    IN  {HttpResponse(StatusOK, TRUE, RawBody(t, bs)) : bs \in BucketLists(t, d)}
        \cup {HttpResponse(StatusOK, TRUE, b) :
                b \in {JMap([error |-> JStr("boom")]),
                       JMap([error |-> JStr("boom"),
                             aggregations |-> Get(full, "aggregations")]),
                       JMap([error |-> JMap([message |-> JStr("boom")]),
                             aggregations |-> Get(full, "aggregations")]),
                       JMap([hits |-> JArr(<<>>)]),
                       JMap([aggregations |-> JStr("junk")]),
                       JMap([aggregations |-> JMap([other |-> Agg(<<>>)])]),
                       JMap([aggregations |-> JMap([unique_users |-> JMap([x |-> JNull]),
                                                    by_station |-> JMap([x |-> JNull])])])}}
        \cup {HttpResponse(StatusOK, FALSE, JNull), HttpResponse(500, TRUE, full)}

\* for job := range jobs { hits, err := worker(job, ...) }: a Job is
\* received, its request answered and the answer folded.  A panic of the
\* fold ends the process with exit status 2 (the entries it sent before
\* die with the process)
WorkerRequest(w) ==
    /\ wpc[w] = "recv"
    /\ jobs # <<>>
    /\ jobs' = Tail(jobs)
    /\ \E resp \in RawResponses(tool, Head(jobs).StartTimestamp) :
          LET r == worker(tool, resp)
          IN  /\ answers' = answers \cup {[job |-> Head(jobs), resp |-> resp]}
              /\ IF r.err # "nil"
                 THEN /\ wpc' = [wpc EXCEPT ![w] = "failed"]
                      /\ failed' = failed \cup {w}
                      /\ UNCHANGED <<pending, panicked, mpc, dpc, exitCode>>
                 ELSE IF r.panic
                 THEN /\ panicked' = TRUE
                      /\ wpc' = [v \in Workers |-> "crashed"]
                      /\ mpc' = "crashed"
                      /\ dpc' = "exited"
                      /\ exitCode' = 2
                      /\ UNCHANGED <<pending, failed>>
                 ELSE /\ pending' = [pending EXCEPT ![w] = r.es]
                      /\ wpc' = [wpc EXCEPT ![w] = "emit"]
                      /\ UNCHANGED <<failed, panicked, mpc, dpc, exitCode>>
    /\ UNCHANGED <<resultChan, resultClosed, errChan, processedDays>>
    /\ UNCHANGED <<tool, startDate, endDate, days, currentDate, jobsClosed, enqueued>>
    /\ UNCHANGED <<userMap, cur, mu, result, observedErrs, outputWritten>>
    /\ UNCHANGED <<ingestVars, outVars>>

NextFold ==
    \/ DriverEnqueue
    \/ DriverCloseJobs
    \/ DriverWgWait
    \/ DriverCloseResult
    \/ DriverProcessDone
    \/ DriverCheckErr
    \/ DriverOutput
    \/ \E w \in Workers : WorkerRequest(w)
    \/ \E w \in Workers : WorkerSendErr(w)
    \/ \E w \in Workers : WorkerEmit(w)
    \/ \E w \in Workers : WorkerJobDone(w)
    \/ \E w \in Workers : WorkerExit(w)
    \/ MergerRecv
    \/ MergerUpdate
    \/ MergerLock
    \/ MergerFinal

\* a run over the single day before now, answered with raw responses
InitFold ==
    /\ IngestIdle
    /\ OutputIdle
    /\ \E t \in {"accept", "sp"} :
          QueryStart(t, [kind |-> "none", n |-> 0], Time(5 * DaySeconds + 43200, 0))

SpecFold == InitFold /\ [][NextFold]_vars

(***************************************************************************)
(* Observations on the fold of raw responses.                              *)
(***************************************************************************)
\* the aggregation path of the decoded body is complete
PathPresent(t, body) ==
    /\ IsMap(Get(body, "aggregations"))
    /\ IsMap(Get(Get(body, "aggregations"), TopAgg(t)))
    /\ IsArr(Get(Get(Get(body, "aggregations"), TopAgg(t)), "buckets"))

\* the top-level bucket list of a body whose path is complete
TopBuckets(t, body) == Get(Get(Get(body, "aggregations"), TopAgg(t)), "buckets").v

\* the top-level bucket b is not a map or lacks its key or its doc_count
TopMalformed(b) ==
    \/ ~IsMap(b)
    \/ "key" \notin DOMAIN b.v
    \/ "doc_count" \notin DOMAIN b.v

\* the fold of the response that holds the one top-level bucket b
FoldOne(t, b) == RawAggregations(t, RawBody(t, <<b>>))

\* C13: no fold panics; for every answered response that decodes with
\* status 200 and a complete aggregation path the Job does not fail, a
\* top-level bucket that is not a map or lacks key or doc_count contributes
\* nothing, and the entries sent are those of each bucket folded on its own,
\* in order, so that the buckets after a skipped one are still folded
C13_MalformedBucketsSkipped ==
    /\ ~panicked
    /\ \A a \in answers :
          (/\ a.resp.status = StatusOK
           /\ a.resp.decodes
           /\ sendQuickwitRequest(tool, a.resp) = "nil"
           /\ PathPresent(tool, a.resp.body))
          => LET r == worker(tool, a.resp)
                 bs == TopBuckets(tool, a.resp.body)
             IN  /\ r.err = "nil"
                 /\ ~r.panic
                 /\ \A i \in DOMAIN bs :
                       TopMalformed(bs[i]) => FoldOne(tool, bs[i]).es = <<>>
                 /\ r.es = Flatten([i \in DOMAIN bs |-> FoldOne(tool, bs[i]).es])

\* the response must fail its Job: status other than 200, an error field
\* in the decoded body, or an incomplete aggregation path
ShouldFail(t, resp) ==
    \/ resp.status # StatusOK
    \/ "error" \in DOMAIN resp.body.v
    \/ ~PathPresent(t, resp.body)

\* C14: a Job whose response decodes (and whose fold does not panic) fails
\* exactly when the status is not 200, or the decoded body carries an error
\* field, or the aggregation path is incomplete
C14_JobFailsExactlyWhen ==
    \A a \in answers :
        LET r == worker(tool, a.resp)
        IN  (a.resp.decodes /\ ~r.panic)
                => (r.err # "nil" <=> ShouldFail(tool, a.resp))

(***************************************************************************)
(* The sharder on a DD-MM-YYYY argument.                                   *)
(***************************************************************************)
\* the latest day (counted from the epoch) named by a date argument
MaxDateDay == 10

DateArgs == {[kind |-> "date", n |-> d] : d \in 1..MaxDateDay}

InitDate ==
    /\ IngestIdle
    /\ OutputIdle
    /\ \E t \in {"accept", "sp"} : \E arg \in DateArgs : \E now \in NowChoices :
          QueryStart(t, arg, now)

SpecDate == InitDate /\ [][NextJobs]_vars

\* C15: for a DD-MM-YYYY argument the Jobs cover exactly the interval from
\* 00:00:00 of the named day (startDate) up to 00:00:00 of the next day:
\* every Job lies within that day and every probed instant of the day lies
\* in some Job
C15_DateIsSingleDay ==
    /\ \A i \in DOMAIN enqueued :
          /\ startDate.sec <= enqueued[i].StartTimestamp
          /\ enqueued[i].EndTimestamp <= startDate.sec + DaySeconds
    /\ jobsClosed =>
          \A t \in ProbeInstants :
              (startDate.sec <= t.sec /\ t.sec < startDate.sec + DaySeconds)
                  <=> \E i \in DOMAIN enqueued : InJob(t, enqueued[i])

(***************************************************************************)
(* The sharder of eduroam-sp on a yYYYY argument.                          *)
(***************************************************************************)
\* the years named by the argument in the modelled runs
YearChoices == {2023, 2024}

InitYear ==
    /\ IngestIdle
    /\ OutputIdle
    /\ \E y \in YearChoices : \E now \in NowChoices :
          QueryStart("sp", [kind |-> "year", n |-> y], now)

SpecYear == InitYear /\ [][NextJobs]_vars

\* the run is the one of the argument y2024
IsYear2024 == startDate = Time(DaysBeforeYear(2024) * DaySeconds, 0)

\* C16: for y2024 the range is the whole leap year (366 days from
\* 2024-01-01T00:00:00 through 2024-12-31T23:59:59.999999999), exactly 366
\* Jobs are emitted and each of them is exactly 86400 s wide
C16_Year2024Jobs ==
    IsYear2024 =>
        /\ days = 366
        /\ endDate = Time(startDate.sec + 366 * DaySeconds - 1, EndNsec)
        /\ Len(enqueued) <= 366
        /\ jobsClosed => Len(enqueued) = 366
        /\ \A i \in DOMAIN enqueued :
              enqueued[i].EndTimestamp - enqueued[i].StartTimestamp = DaySeconds

(***************************************************************************)
(* eduroam-accept: main from its start, on a numeric second argument.      *)
(***************************************************************************)
\* the largest numeric argument main takes as a number of days
DaysLimit == 366

\* the numbers given as second argument in the modelled runs
DayArgs == {-2, -1, 0, 1, 2, DaysLimit, DaysLimit + 1}

\* the process has parsed the number d (strconv.Atoi succeeded) and nothing
\* else has happened; d is held in days
InitArgs ==
    /\ IngestIdle
    /\ OutputIdle
    /\ tool = "accept"
    /\ days \in DayArgs
    /\ dpc = "args"
    /\ startDate = Time(0, 0)
    /\ endDate = Time(0, 0)
    /\ currentDate = Time(0, 0)
    /\ jobs = <<>>
    /\ jobsClosed = FALSE
    /\ enqueued = <<>>
    /\ wpc = [w \in Workers |-> "none"]
    /\ pending = [w \in Workers |-> <<>>]
    /\ failed = {}
    /\ answers = {}
    /\ resultChan = <<>>
    /\ resultClosed = FALSE
    /\ errChan = <<>>
    /\ mpc = "none"
    /\ userMap = <<>>
    /\ cur = <<>>
    /\ mu = "free"
    /\ result = <<>>
    /\ processedDays = 0
    /\ observedErrs = 0
    /\ exitCode = -1
    /\ outputWritten = FALSE
    /\ panicked = FALSE

\* main's test on the number: err == nil && d <= 366
ArgIsDays(d) == d <= DaysLimit

\* main from the test of the argument to the start of the enqueue loop.
\* A number that fails the test is parsed as a date, which fails:
\* log.Fatalf, exit status 1.  make(chan Job, days) panics on a negative
\* size, after resultChan and errChan were made: exit status 2.
MainArgs ==
    /\ dpc = "args"
    /\ IF ~ArgIsDays(days)
       THEN /\ dpc' = "exited"
            /\ exitCode' = 1
            /\ UNCHANGED <<startDate, endDate, currentDate, wpc, mpc, result, panicked>>
       ELSE \E now \in {Time(5 * DaySeconds + 43200, 0)} :
            LET r == MainRange([kind |-> "days", n |-> days], now)
            IN  /\ startDate' = r.startDate
                /\ endDate' = r.endDate
                /\ IF days < 0
                   THEN /\ panicked' = TRUE
                        /\ dpc' = "exited"
                        /\ exitCode' = 2
                        /\ UNCHANGED <<currentDate, wpc, mpc, result>>
                   ELSE /\ currentDate' = r.startDate
                        /\ wpc' = [w \in Workers |-> "recv"]
                        /\ mpc' = "range"
                        /\ result' = EmptyResult(tool)
                        /\ dpc' = "enqueue"
                        /\ UNCHANGED <<exitCode, panicked>>
    /\ UNCHANGED <<tool, days, jobs, jobsClosed, enqueued>>
    /\ UNCHANGED <<pending, failed, answers, resultChan, resultClosed, errChan,
                   processedDays>>
    /\ UNCHANGED <<userMap, cur, mu, observedErrs, outputWritten>>
    /\ UNCHANGED <<ingestVars, outVars>>

NextArgs ==
    \/ MainArgs
    \/ DriverEnqueue
    \/ DriverCloseJobs
    \/ JobReceived

SpecArgs == InitArgs /\ [][NextArgs]_vars

\* the worker pool and the merger have been started (the channels exist)
PoolStarted == mpc # "none" \/ \E w \in Workers : wpc[w] # "none"

\* C17: eduroam-accept takes a numeric argument as a number of days only
\* when 1 <= days <= 366; any other number is rejected with exit status 1
\* before the pool is started, a Job enqueued or a request sent
C17_DaysValidated ==
    dpc # "args" =>
        IF days >= 1 /\ days <= DaysLimit
        THEN PoolStarted /\ exitCode = -1
        ELSE /\ dpc = "exited"
             /\ exitCode = 1
             /\ ~PoolStarted
             /\ enqueued = <<>>
             /\ answers = {}

(***************************************************************************)
(* Observations on the order of the output arrays.                         *)
(***************************************************************************)
\* the rows of provider_stats are in descending user_count, rows of equal
\* count in ascending name
ProvidersOrdered(doc) ==
    \A i, j \in DOMAIN doc.provider_stats :
        i < j =>
            LET a == doc.provider_stats[i]
                b == doc.provider_stats[j]
            IN  \/ a.user_count > b.user_count
                \/ /\ a.user_count = b.user_count
                   /\ NameRank(a.provider) < NameRank(b.provider)

\* the rows of user_stats are in ascending username
UsersByName(doc) ==
    \A i, j \in DOMAIN doc.user_stats :
        i < j => NameRank(doc.user_stats[i].username) < NameRank(doc.user_stats[j].username)

\* C18: the arrays of the output document are ordered as specified, ties
\* included: the providers by descending user count, providers of equal
\* count by name; the users, which the document tells apart by name only,
\* by ascending username
C18_OutputOrdered ==
    \A run \in DOMAIN outputs :
        outputs[run] # <<>> =>
            /\ ProvidersOrdered(outputs[run][1])
            /\ UsersByName(outputs[run][1])

(***************************************************************************)
(* The realm query over three days with two users.                         *)
(***************************************************************************)
\* eduroam-accept on the argument 3
InitRealm3 ==
    /\ IngestIdle
    /\ OutputIdle
    /\ QueryStart("accept", [kind |-> "days", n |-> 3], Time(5 * DaySeconds + 43200, 0))

\* the steps of an eduroam-accept run (its merger has no per-entry update)
NextAccept ==
    \/ DriverEnqueue
    \/ DriverCloseJobs
    \/ DriverWgWait
    \/ DriverCloseResult
    \/ DriverProcessDone
    \/ DriverCheckErr
    \/ DriverOutput
    \/ \E w \in Workers : WorkerTakeJob(w)
    \/ \E w \in Workers : WorkerSendErr(w)
    \/ \E w \in Workers : WorkerEmit(w)
    \/ \E w \in Workers : WorkerJobDone(w)
    \/ \E w \in Workers : WorkerExit(w)
    \/ MergerRecv
    \/ MergerLock
    \/ MergerFinal

SpecRealm3 == InitRealm3 /\ [][NextAccept]_vars

\* the response of the scenario to a Job: alice with providers [sp1], bob
\* with providers [sp1, sp2], each with one non-empty daily bucket
ScenarioBuckets(job) ==
    <<UserBucket("alice", <<"sp1">>, <<Leaf(job.StartTimestamp, 3)>>),
      UserBucket("bob", <<"sp1", "sp2">>, <<Leaf(job.StartTimestamp, 1)>>)>>

\* the run is over: three Jobs, each answered with the scenario's response
ScenarioRun ==
    /\ outputWritten
    /\ Len(enqueued) = 3
    /\ answers = {[job |-> enqueued[i], buckets |-> ScenarioBuckets(enqueued[i])] :
                    i \in DOMAIN enqueued}

\* the output documents the run can write, over all map iteration orders
ScenarioDocs ==
    {createOutputData(result, provOrd, userOrd, memberOrd) :
        provOrd \in Orders(DOMAIN result.Providers),
        userOrd \in Orders(DOMAIN result.Users),
        memberOrd \in Orders(UserNames \cup ProviderNames)}

\* the row of user u in user_stats
UserRow(doc, u) ==
    doc.user_stats[CHOOSE i \in DOMAIN doc.user_stats : doc.user_stats[i].username = u]

\* C19: the realm query over 3 days answered every day with alice [sp1] and
\* bob [sp1, sp2] writes total_users = 2, total_providers = 2, alice with
\* days_active = 3 and providers [sp1], bob with days_active = 3 and
\* providers [sp1, sp2], and lists provider sp1 first
C19_RealmScenario ==
    ScenarioRun =>
        \A doc \in ScenarioDocs :
            /\ doc.summary.total_users = 2
            /\ doc.summary.total_providers = 2
            /\ doc.provider_stats[1].provider = "sp1"
            /\ UserRow(doc, "alice").providers = <<"sp1">>
            /\ UserRow(doc, "bob").providers = <<"sp1", "sp2">>
            /\ \A u \in {"alice", "bob"} :
                  /\ "days_active" \in DOMAIN UserRow(doc, u)
                  /\ UserRow(doc, u).days_active = 3

(***************************************************************************)
(* Pattern analysis of eduroam-sp v2.2.2.  A timestamp is a number of      *)
(* seconds; Duration.Minutes() of a difference of d seconds is d / 60, so  *)
(* a comparison of minutes with a constant c is a comparison of d with     *)
(* 60 * c and int(minutes) is d \div 60.  A formatted time is the          *)
(* one-element sequence of its seconds, the empty string is <<>>.          *)
(***************************************************************************)
\* a nil pointer or nil slice header
Nil == [nil |-> TRUE]

\* ts.Format(time.RFC3339)
FormatTime(ts) == <<ts>>

\* the zero value of Period
ZeroPeriod == [Start |-> <<>>, End |-> <<>>, DurationMinutes |-> 0, AuthCount |-> 0]

\* the loop of findActivePeriods from index i on: st is the start of the
\* current period, n its authCount, acc the periods closed so far
RECURSIVE ActivePeriodsLoop(_, _, _, _, _)
ActivePeriodsLoop(ts, i, st, n, acc) ==
    IF i > Len(ts)
    THEN Append(acc, [Start |-> FormatTime(st), End |-> FormatTime(ts[Len(ts)]),
                      DurationMinutes |-> (ts[Len(ts)] - st) \div 60, AuthCount |-> n])
    ELSE IF ts[i] - ts[i - 1] > 15 * 60
         THEN ActivePeriodsLoop(ts, i + 1, ts[i], 1,
                  Append(acc, [Start |-> FormatTime(st), End |-> FormatTime(ts[i - 1]),
                               DurationMinutes |-> (ts[i - 1] - st) \div 60,
                               AuthCount |-> n]))
         ELSE ActivePeriodsLoop(ts, i + 1, st, n + 1, acc)

\* findActivePeriods: nil for fewer than two timestamps
findActivePeriods(timestamps) ==
    IF Len(timestamps) < 2 THEN <<>>
    ELSE ActivePeriodsLoop(timestamps, 2, timestamps[1], 1, <<>>)

\* a FrequentReauth for the group g
Reauth(g) == [First |-> g[1], Last |-> g[Len(g)], Count |-> Len(g)]

\* the loop of findFrequentReauths from index i on: g is currentGroup
RECURSIVE FrequentReauthsLoop(_, _, _, _)
FrequentReauthsLoop(ts, i, g, acc) ==
    IF i > Len(ts) - 1
    THEN IF Len(g) >= 3 THEN Append(acc, Reauth(g)) ELSE acc
    ELSE LET g1 == IF g = <<>> THEN <<ts[i]>> ELSE g
         IN  IF ts[i + 1] - ts[i] <= 2 * 60
             THEN FrequentReauthsLoop(ts, i + 1, Append(g1, ts[i + 1]), acc)
             ELSE FrequentReauthsLoop(ts, i + 1, <<>>,
                      IF Len(g1) >= 3 THEN Append(acc, Reauth(g1)) ELSE acc)

findFrequentReauths(timestamps) == FrequentReauthsLoop(timestamps, 1, <<>>, <<>>)

\* the loop of findLongestGap from index i on: maxGap in seconds
RECURSIVE LongestGapLoop(_, _, _, _)
LongestGapLoop(ts, i, maxGap, longest) ==
    IF i > Len(ts) THEN longest
    ELSE IF ts[i] - ts[i - 1] > maxGap
         THEN LongestGapLoop(ts, i + 1, ts[i] - ts[i - 1],
                  [Start |-> FormatTime(ts[i - 1]), End |-> FormatTime(ts[i]),
                   DurationMinutes |-> (ts[i] - ts[i - 1]) \div 60, AuthCount |-> 0])
         ELSE LongestGapLoop(ts, i + 1, maxGap, longest)

findLongestGap(timestamps) == LongestGapLoop(timestamps, 2, 0, ZeroPeriod)

\* the smallest and the largest element of a non-empty set of numbers
Min(S) == CHOOSE x \in S : \A y \in S : x <= y

Max(S) == CHOOSE x \in S : \A y \in S : y <= x

\* analyzeUsagePatterns: nil for no timestamps; AuthIntervals keeps its zero
\* value when there is no interval (HourlyDistribution and AverageMinutes
\* are not modelled)
analyzeUsagePatterns(timestamps) ==
    IF Len(timestamps) = 0 THEN Nil
    ELSE LET ts        == SortSeq(timestamps, LAMBDA a, b : a < b)
             intervals == {ts[i] - ts[i - 1] : i \in 2..Len(ts)}
         IN  [AuthIntervals |->
                 IF intervals # {}
                 THEN [MinMinutes |-> Min(intervals) \div 60,
                       MaxMinutes |-> Max(intervals) \div 60]
                 ELSE [MinMinutes |-> 0, MaxMinutes |-> 0],
              ActivePeriods |-> findActivePeriods(ts),
              ConnectionStability |->
                 [FrequentReauths |-> findFrequentReauths(ts),
                  LongestGap |-> findLongestGap(ts)]]

\* fmt.Sprintf("%.0f", seconds / 60): the minutes rounded to the nearest
\* whole number, a half to the even one
RoundMinutes(seconds) ==
    LET q == seconds \div 60
        r == seconds % 60
    IN  IF r > 30 \/ (r = 30 /\ q % 2 = 1) THEN q + 1 ELSE q

\* the Session that starts at st, ends at en and holds n authentications
\* (ReauthRate is not modelled)
SessionOf(st, en, n) ==
    [Start |-> FormatTime(st), End |-> FormatTime(en),
     Duration |-> RoundMinutes(en - st), AuthsCount |-> n]

RECURSIVE SessionsLoop_AtLeast(_, _, _, _, _)
\* mutant: a gap of exactly sessionTimeout starts a new session
SessionsLoop_AtLeast(ts, i, st, n, acc) ==
    IF i > Len(ts)
    THEN Append(acc, SessionOf(st, ts[Len(ts)], n))
    ELSE IF ts[i] - ts[i - 1] >= 15 * 60
         THEN SessionsLoop_AtLeast(ts, i + 1, ts[i], 1,
                                   Append(acc, SessionOf(st, ts[i - 1], n)))
         ELSE SessionsLoop_AtLeast(ts, i + 1, st, n + 1, acc)

\* the loop of analyzeSessionPatterns from index i on: st is the start of
\* the current session, n its authCount, acc the sessions closed so far
RECURSIVE SessionsLoop(_, _, _, _, _)
SessionsLoop(ts, i, st, n, acc) ==
    IF i > Len(ts)
    THEN Append(acc, SessionOf(st, ts[Len(ts)], n))
    ELSE IF ts[i] - ts[i - 1] > 15 * 60
         THEN SessionsLoop(ts, i + 1, ts[i], 1, Append(acc, SessionOf(st, ts[i - 1], n)))
         ELSE SessionsLoop(ts, i + 1, st, n + 1, acc)

\* analyzeSessionPatterns: nil for fewer than two timestamps
\* (AverageSessionDuration is not modelled)
analyzeSessionPatterns(timestamps) ==
    IF Len(timestamps) < 2 THEN Nil
    ELSE LET sessions == SessionsLoop(timestamps, 2, timestamps[1], 1, <<>>)
         IN  [TotalSessions |-> Len(sessions), SessionDetails |-> sessions]

\* analyzePotentialIssues: the types of the issues, in the order appended
analyzePotentialIssues(patterns) ==
    [i \in DOMAIN patterns.ConnectionStability.FrequentReauths |-> "frequent_reauth"]
        \o (IF patterns.ConnectionStability.LongestGap.DurationMinutes > 60
            THEN <<"long_gap">> ELSE <<>>)
        \o (IF patterns.AuthIntervals.MinMinutes < 1
            THEN <<"rapid_reauth">> ELSE <<>>)

\* the statements of createOutputData's inner loop for one user: the
\* station's analysis fields are assigned when usagePatterns is not nil
UserStep(stat, username, activity) ==
    LET detail   == [username |-> username, realm |-> activity.Realm,
                     auth_timestamps |->
                        [i \in DOMAIN activity.AuthTimestamps |->
                            FormatTime(activity.AuthTimestamps[i])]]
        patterns == analyzeUsagePatterns(activity.AuthTimestamps)
        sorted   == SortSeq(activity.AuthTimestamps, LAMBDA a, b : a < b)
        s1       == [stat EXCEPT !.user_details = Append(@, detail)]
    IN  IF patterns # Nil
        THEN [s1 EXCEPT !.usage_patterns = patterns,
                        !.session_analysis = analyzeSessionPatterns(sorted),
                        !.potential_issues = analyzePotentialIssues(patterns)]
        ELSE s1

\* for username, activity := range stats.Users, in the order users
RECURSIVE UsersLoop(_, _, _)
UsersLoop(stat, stats, users) ==
    IF users = <<>> THEN stat
    ELSE UsersLoop(UserStep(stat, Head(users), stats.Users[Head(users)]), stats,
                   Tail(users))

\* createOutputData (sp): stationOrd and realmOrd are the iteration orders of
\* result.Stations and result.Realms, userOrd the order in which the Users
\* map of a station is iterated
createOutputDataSp(res, stationOrd, realmOrd, userOrd) ==
    LET stationStats ==
            [i \in DOMAIN stationOrd |->
                LET stats == res.Stations[stationOrd[i]]
                    stat  == UsersLoop(
                                [station_id |-> stationOrd[i],
                                 total_auths |-> stats.TotalAuths,
                                 total_users |-> Cardinality(DOMAIN stats.Users),
                                 user_details |-> <<>>,
                                 usage_patterns |-> Nil,
                                 session_analysis |-> Nil,
                                 potential_issues |-> <<>>],
                                stats, InOrder(userOrd, DOMAIN stats.Users))
                IN  [stat EXCEPT !.user_details =
                        SortSlice(@, [k \in DOMAIN @ |-> NameRank(@[k].username)])]]
        realmStats ==
            [i \in DOMAIN realmOrd |->
                [realm |-> realmOrd[i],
                 total_users |-> Cardinality(res.Realms[realmOrd[i]].Users),
                 total_stations |-> Cardinality(res.Realms[realmOrd[i]].Stations),
                 total_auths |-> res.Realms[realmOrd[i]].TotalAuths]]
        sum[i \in 0..Len(stationOrd)] ==
            IF i = 0 THEN 0 ELSE sum[i - 1] + res.Stations[stationOrd[i]].TotalAuths
    IN  [summary |->
            [unique_stations |-> Cardinality(DOMAIN res.Stations),
             unique_users |->
                Cardinality(UNION {DOMAIN res.Stations[s].Users : s \in DOMAIN res.Stations}),
             unique_realms |-> Cardinality(DOMAIN res.Realms),
             total_auths |-> sum[Len(stationOrd)]],
         station_stats |->
            SortSlice(stationStats,
                      [i \in DOMAIN stationStats |-> 0 - stationStats[i].total_auths]),
         realm_stats |->
            SortSlice(realmStats,
                      [i \in DOMAIN realmStats |-> 0 - realmStats[i].total_auths])]

(***************************************************************************)
(* The SP query over a single day: station S1 with alice (realm r1)        *)
(* authenticating three times 30 s apart and bob (realm r2) once.          *)
(***************************************************************************)
\* the buckets of a date histogram of the given interval (seconds) over the
\* instants times, in ascending key
Histogram(times, interval) ==
    LET keyOf(t) == t - (t % interval)
        keys     == {keyOf(times[i]) : i \in DOMAIN times}
        ord      == CHOOSE f \in Orders(keys) : \A i, j \in DOMAIN f : i < j => f[i] < f[j]
    IN  [i \in DOMAIN ord |->
            Leaf(ord[i], Cardinality({k \in DOMAIN times : keyOf(times[k]) = ord[i]}))]

\* the intervals the endpoint builds auth_times with: the "1m" the worker
\* asks for, or one bucket per second
HistogramIntervals == {1, 60}

\* the second of the minute of alice's first authentication, and the lead of
\* bob's authentication over it
AliceOffsets == {0, 15, 45}

BobLeads == {0, 40, 3600}

\* the responses of the scenario to a Job
SpDayResponses(job) ==
    {LET t0    == job.StartTimestamp + 43200 + off
         alice == SpUserBucket("alice", <<"r1">>,
                               Histogram(<<t0, t0 + 30, t0 + 60>>, interval))
         bob   == SpUserBucket("bob", <<"r2">>, Histogram(<<t0 - lead>>, interval))
     IN  <<StationBucket("S1", IF aliceFirst THEN <<alice, bob>> ELSE <<bob, alice>>)>> :
        interval \in HistogramIntervals, off \in AliceOffsets, lead \in BobLeads,
        aliceFirst \in BOOLEAN}

\* a Job is received and its request answered with a response of the scenario
SpDayTakeJob(w) ==
    /\ wpc[w] = "recv"
    /\ jobs # <<>>
    /\ jobs' = Tail(jobs)
    /\ \E buckets \in SpDayResponses(Head(jobs)) :
          /\ pending' = [pending EXCEPT ![w] = processAggregations(tool, buckets)]
          /\ answers' = answers \cup {[job |-> Head(jobs), buckets |-> buckets]}
          /\ wpc' = [wpc EXCEPT ![w] = "emit"]
    /\ UNCHANGED <<failed, resultChan, resultClosed, errChan, processedDays, panicked>>
    /\ UNCHANGED <<tool, startDate, endDate, days, currentDate, jobsClosed, enqueued>>
    /\ UNCHANGED <<mergerVars, driverVars, ingestVars, outVars>>

\* eduroam-sp on the argument 1
InitSpDay ==
    /\ IngestIdle
    /\ OutputIdle
    /\ QueryStart("sp", [kind |-> "days", n |-> 1], Time(5 * DaySeconds + 43200, 0))

NextSpDay ==
    \/ DriverEnqueue
    \/ DriverCloseJobs
    \/ DriverWgWait
    \/ DriverCloseResult
    \/ DriverProcessDone
    \/ DriverCheckErr
    \/ DriverOutput
    \/ \E w \in Workers : SpDayTakeJob(w)
    \/ \E w \in Workers : WorkerEmit(w)
    \/ \E w \in Workers : WorkerJobDone(w)
    \/ \E w \in Workers : WorkerExit(w)
    \/ MergerRecv
    \/ MergerUpdate
    \/ MergerLock
    \/ MergerFinal

SpecSpDay == InitSpDay /\ [][NextSpDay]_vars

\* the run is over and has written its report
SpDayRun ==
    /\ outputWritten
    /\ Len(enqueued) = 1

\* the output documents the run can write, over all map iteration orders
SpDayDocs ==
    {createOutputDataSp(result, stationOrd, realmOrd, userOrd) :
        stationOrd \in Orders(DOMAIN result.Stations),
        realmOrd \in Orders(DOMAIN result.Realms),
        userOrd \in Orders(UserNames)}

\* the row of station st in station_stats
StationRow(doc, st) ==
    doc.station_stats[CHOOSE i \in DOMAIN doc.station_stats :
                         doc.station_stats[i].station_id = st]

\* C20: the SP query for a single day in which station S1 shows alice
\* (realm r1) with three authentications 30 s apart and bob (realm r2) with
\* one writes unique_stations = 1, unique_users = 2, unique_realms = 2, and
\* for station S1 one active period, a longest gap below 1 minute and the
\* potential issue rapid_reauth
C20_SpDayScenario ==
    SpDayRun =>
        \A doc \in SpDayDocs :
            /\ doc.summary.unique_stations = 1
            /\ doc.summary.unique_users = 2
            /\ doc.summary.unique_realms = 2
            /\ LET s1 == StationRow(doc, "S1")
               IN  /\ s1.usage_patterns # Nil
                   /\ Len(s1.usage_patterns.ActivePeriods) = 1
                   /\ s1.usage_patterns.ConnectionStability.LongestGap.DurationMinutes < 1
                   /\ \E i \in DOMAIN s1.potential_issues :
                         s1.potential_issues[i] = "rapid_reauth"

(***************************************************************************)
(* The forms of the timestamp prefix.                                      *)
(***************************************************************************)
\* a legacy syslog timestamp: "Oct 14 00:00:02 h p m"
L_Syslog ==
    <<"O", "c", "t", " ", "1", "4", " ", "0", "0", ":", "0", "0", ":", "0", "2", " ", "h", " ", "p", " ", "m">>

\* an ISO timestamp with a timezone offset: "2024-01-02T15:04:05+07:00 h p m"
L_IsoZone ==
    <<"2", "0", "2", "4", "-", "0", "1", "-", "0", "2", "T", "1", "5", ":", "0", "4", ":", "0", "5", "+", "0", "7", ":", "0", "0", " ", "h", " ", "p", " ", "m">>

\* a space-separated timestamp before hostname, process and message: "2024-01-02 15:04:05 h p m"
L_SpaceLong ==
    <<"2", "0", "2", "4", "-", "0", "1", "-", "0", "2", " ", "1", "5", ":", "0", "4", ":", "0", "5", " ", "h", " ", "p", " ", "m">>

\* the lines whose prefix is in one of the four forms
StampLines == {L_Syslog, L_IsoZone, L_SpaceLong}

(***************************************************************************)
(* Catch-up over a file holding one Access-Accept line.                    *)
(***************************************************************************)
\* the line "2024-10-14T00:00:02 host-a radiusd[123]: Access-Accept for user alice@ku.ac.th stationid AA-BB-CC-DD-EE-FF from eduroam.ku.ac.th to eduroam.example.ac.th (10.0.0.1)"
L_Catchup ==
    <<"2", "0", "2", "4", "-", "1", "0", "-", "1", "4", "T", "0", "0", ":", "0", "0", ":", "0", "2", " ", "h", "o", "s", "t", "-", "a", " ", "r", "a", "d", "i", "u", "s", "d", "[", "1", "2", "3", "]", ":", " ", "A", "c", "c", "e", "s", "s", "-", "A", "c", "c", "e", "p", "t", " ", "f", "o", "r", " ", "u", "s", "e", "r", " ", "a", "l", "i", "c", "e", "@", "k", "u", ".", "a", "c", ".", "t", "h", " ", "s", "t", "a", "t", "i", "o", "n", "i", "d", " ", "A", "A", "-", "B", "B", "-", "C", "C", "-", "D", "D", "-", "E", "E", "-", "F", "F", " ", "f", "r", "o", "m", " ", "e", "d", "u", "r", "o", "a", "m", ".", "k", "u", ".", "a", "c", ".", "t", "h", " ", "t", "o", " ", "e", "d", "u", "r", "o", "a", "m", ".", "e", "x", "a", "m", "p", "l", "e", ".", "a", "c", ".", "t", "h", " ", "(", "1", "0", ".", "0", ".", "0", ".", "1", ")">>

V_timestamp == <<"2", "0", "2", "4", "-", "1", "0", "-", "1", "4", "T", "0", "0", ":", "0", "0", ":", "0", "2", "Z">>
V_process == <<"r", "a", "d", "i", "u", "s", "d">>
V_username == <<"a", "l", "i", "c", "e", "@", "k", "u", ".", "a", "c", ".", "t", "h">>
V_station == <<"A", "A", "-", "B", "B", "-", "C", "C", "-", "D", "D", "-", "E", "E", "-", "F", "F">>
V_realm == <<"e", "d", "u", "r", "o", "a", "m", ".", "k", "u", ".", "a", "c", ".", "t", "h">>
V_provider == <<"e", "d", "u", "r", "o", "a", "m", ".", "e", "x", "a", "m", "p", "l", "e", ".", "a", "c", ".", "t", "h">>
V_ip == <<"1", "0", ".", "0", ".", "0", ".", "1">>

\* strconv.ParseInt(s, 10, 64) of a string of digits
RECURSIVE ParseInt(_)
ParseInt(s) ==
    IF s = <<>> THEN 0 ELSE 10 * ParseInt(SubSeq(s, 1, Len(s) - 1)) + DigitValue(s[Len(s)])

\* json.Marshal(entry): the members of the object; the fields tagged
\* omitempty are left out at their zero value
Marshal(entry) ==
    LET opt(k, v) == IF v = <<>> THEN <<>> ELSE k :> v
    IN  [timestamp |-> entry.Timestamp, hostname |-> entry.Hostname,
         process |-> entry.Process, message_type |-> entry.MessageType,
         full_message |-> entry.FullMessage]
            @@ (IF entry.PID = <<>> \/ ParseInt(entry.PID) = 0 THEN <<>>
                ELSE "pid" :> ParseInt(entry.PID))
            @@ opt("destination_ip", entry.DestinationIP)
            @@ opt("username", entry.Username)
            @@ opt("station_id", entry.StationID)
            @@ opt("realm", entry.Realm)
            @@ opt("service_provider", entry.ServiceProvider)

\* the JSON objects of the body of POST p, one per line of the body
Objects(p) == [i \in DOMAIN p.body |-> Marshal(parseLine(file[p.body[i]].text).entry)]

\* the lines a log file is made of in the catch-up runs
CatchupLines == RawLines \cup {L_Catchup} \cup StampLines

\* the log file as processLogFile opens it
FileOf(texts) ==
    [i \in DOMAIN texts |->
        [id |-> i, ok |-> parseLine(texts[i]).err = "nil", text |-> texts[i]]]

\* processLogFile starts on a file of one line or more
InitCatchup ==
    /\ \E n \in 1..MaxRawLines : \E texts \in [1..n -> CatchupLines] :
          file = FileOf(texts)
    /\ lastPosition = 0
    /\ scanPos = 0
    /\ entries = <<>>
    /\ phase = "catchup"
    /\ events = 0
    /\ calls = <<>>
    /\ QueryIdle
    /\ OutputIdle

NextCatchup ==
    \/ ExistingDataScan
    \/ ExistingDataEOF

SpecCatchup == InitCatchup /\ [][NextCatchup]_vars

\* catch-up over the one-line file is over and the server accepted the
\* first POST it received
CatchupDone ==
    /\ Len(file) = 1
    /\ file[1].text = L_Catchup
    /\ phase = "watchAdd"
    /\ \A c \in DOMAIN calls : calls[c].posts[1].status = StatusOK

MonthNames ==
    {<<"J", "a", "n">>, <<"F", "e", "b">>, <<"M", "a", "r">>, <<"A", "p", "r">>,
     <<"M", "a", "y">>, <<"J", "u", "n">>, <<"J", "u", "l">>, <<"A", "u", "g">>,
     <<"S", "e", "p">>, <<"O", "c", "t">>, <<"N", "o", "v">>, <<"D", "e", "c">>}

\* a timezone offset "+07:00" or "Z"
IsZone(s) ==
    \/ s = <<"Z">>
    \/ /\ Len(s) = 6
       /\ s[1] \in {"+", "-"}
       /\ s[4] = ":"
       /\ \A i \in {2, 3, 5, 6} : IsDigit(s[i])

\* a day of the month in one or two digits
IsDay(s) == Len(s) \in 1..2 /\ (\A i \in DOMAIN s : IsDigit(s[i])) /\ ParseInt(s) \in 1..31

\* the form of the timestamp prefix of the token list parts, in the
\* precedence ISO, space-separated, date-only, syslog ("none": no form)
StampForm(parts) ==
    IF Len(parts) >= 1 /\ Len(parts[1]) >= 19 /\ IsDateTime(SubSeq(parts[1], 1, 19), "T")
       /\ (Len(parts[1]) = 19 \/ IsZone(SubSeq(parts[1], 20, Len(parts[1]))))
    THEN "iso"
    ELSE IF Len(parts) >= 2 /\ IsDate(parts[1]) /\ IsClock(parts[2]) THEN "space"
    ELSE IF Len(parts) >= 1 /\ IsDate(parts[1]) THEN "date"
    ELSE IF Len(parts) >= 3 /\ parts[1] \in MonthNames /\ IsDay(parts[2])
            /\ IsClock(parts[3])
    THEN "syslog"
    ELSE "none"

\* the number of leading tokens the form takes as the timestamp
StampTokens(form) ==
    IF form = "space" THEN 2 ELSE IF form = "syslog" THEN 3 ELSE 1

\* C22: parseLine recognises the timestamp prefix in the precedence ISO
\* (optionally with a timezone offset), space-separated, date-only, legacy
\* syslog; the form fixes the number of leading tokens that are the
\* timestamp (1, 2, 1, 3) and the hostname is the token that follows them
C22_TimestampForms ==
    \A k \in DOMAIN file :
        LET parts == Fields(file[k].text)
            form  == StampForm(parts)
            r     == parseLine(file[k].text)
        IN  (form # "none" /\ Len(parts) >= StampTokens(form) + 3)
                => /\ r.err = "nil"
                   /\ r.entry.Hostname = parts[StampTokens(form) + 1]

(***************************************************************************)
(* Configuration of the ingestion binary: main and loadConfig.             *)
(***************************************************************************)
\* the BatchSize loadConfig starts from
DefaultBatchSize == 30000

\* the file name main passes to loadConfig
DefaultConfigFile == "src2index.properties"

\* strconv.Atoi on the values used in the modelled files: the number, or
\* -1 for an error
Atoi(value) ==
    IF value = "5" THEN 5 ELSE IF value = "7" THEN 7 ELSE 0 - 1

\* the switch of loadConfig for one key = value line
SetKey(cfg, key, value) ==
    IF key = "logFilePath" THEN [cfg EXCEPT !.LogFilePath = value]
    ELSE IF key = "quickwitURL" THEN [cfg EXCEPT !.QuickwitURL = value]
    ELSE IF key = "username" THEN [cfg EXCEPT !.Username = value]
    ELSE IF key = "password" THEN [cfg EXCEPT !.Password = value]
    ELSE IF key = "batchSize"
    THEN IF Atoi(value) # -1 THEN [cfg EXCEPT !.BatchSize = Atoi(value)] ELSE cfg
    ELSE IF key = "maxRetries"
    THEN IF Atoi(value) # -1 THEN [cfg EXCEPT !.MaxRetries = Atoi(value)] ELSE cfg
    ELSE cfg

\* the scanner loop of loadConfig over the key = value lines of the file
RECURSIVE ScanConfig(_, _)
ScanConfig(cfg, lines) ==
    IF lines = <<>> THEN cfg
    ELSE ScanConfig(SetKey(cfg, Head(lines).key, Head(lines).value), Tail(lines))

\* loadConfig(filename) on the disk fs: the error ("nil" for none) and the
\* Config
loadConfig(fs, filename) ==
    LET start == [LogFilePath |-> "", QuickwitURL |-> "", Username |-> "",
                  Password |-> "", BatchSize |-> DefaultBatchSize,
                  MaxRetries |-> MaxRetries]
    IN  IF ~fs[filename].exists
        THEN [err |-> "open", config |-> start]
        ELSE LET cfg == ScanConfig(start, fs[filename].lines)
             IN  IF cfg.LogFilePath = "" \/ cfg.QuickwitURL = "" \/ cfg.Username = ""
                    \/ cfg.Password = ""
                 THEN [err |-> "missing required configuration", config |-> cfg]
                 ELSE [err |-> "nil", config |-> cfg]

\* a key = value line
KV(k, v) == [key |-> k, value |-> v]

\* the contents a properties file has in the modelled runs
Missing == [exists |-> FALSE, lines |-> <<>>]

PropsOf(path, url) ==
    [exists |-> TRUE,
     lines |-> <<KV("logFilePath", path), KV("quickwitURL", url),
                 KV("username", "u"), KV("password", "p")>>]

DefaultFiles ==
    {Missing, PropsOf("/a.log", "http://a"),
     [exists |-> TRUE,
      lines |-> PropsOf("/a.log", "http://a").lines
                    \o <<KV("batchSize", "5"), KV("maxRetries", "x")>>],
     [exists |-> TRUE, lines |-> <<KV("logFilePath", "/a.log"), KV("username", "u")>>]}

AltFiles == {Missing, PropsOf("/c.log", "http://c")}

\* the flags of a command line; "" stands for a flag that is not given
FlagSets ==
    [config : {"", "alt.properties"}, logfile : {"", "/b.log"},
     url : {"", "http://b"}]

\* the process starts: a command line and the files on disk
InitConfig ==
    /\ IngestIdle
    /\ QueryIdle
    /\ outputs = [run \in {1, 2} |-> <<>>]
    /\ args \in FlagSets
    /\ \E d \in DefaultFiles : \E a \in AltFiles :
          props = [p \in {DefaultConfigFile, "alt.properties"} |->
                      IF p = DefaultConfigFile THEN d ELSE a]
    /\ config = <<>>
    /\ WatchIdle
    /\ WriterIdle
    /\ AnalysisIdle
    /\ LegacyIdle

\* main: config, err := loadConfig("src2index.properties"); the command line
\* is not read
MainLoadConfig ==
    /\ config = <<>>
    /\ props # <<>>
    /\ config' = <<loadConfig(props, DefaultConfigFile)>>
    /\ UNCHANGED <<args, props, outputs>>
    /\ UNCHANGED <<ingestVars, queryVars, writerVars, analysisVars, legacyVars, watchVars>>

NextConfig == MainLoadConfig

SpecConfig == InitConfig /\ [][NextConfig]_vars

\* the configuration the flags and the files call for: the file named by
\* -config, logFilePath and quickwitURL replaced by the flags that are given
Effective(flags, fs) ==
    LET r == loadConfig(fs, IF flags.config # "" THEN flags.config ELSE DefaultConfigFile)
        c1 == IF flags.logfile # "" THEN [r.config EXCEPT !.LogFilePath = flags.logfile]
              ELSE r.config
        c2 == IF flags.url # "" THEN [c1 EXCEPT !.QuickwitURL = flags.url] ELSE c1
    IN  [err |-> r.err, config |-> c2]

\* C23: the ingestion binary's effective configuration is the file named by
\* -config (default src2index.properties) with logFilePath replaced by
\* -logfile and quickwitURL replaced by -quickwit-url whenever those flags
\* are given
C23_FlagsOverrideFile ==
    config # <<>> =>
        LET want == Effective(args, props)
        IN  /\ (config[1].err = "nil") = (want.err = "nil")
            /\ want.err = "nil" => config[1].config = want.config

\* the (1-based) attempts of call c that failed for a reason other than
\* payload-too-large
OtherFailures(c) ==
    {k \in DOMAIN c.posts : c.posts[k].status \notin {StatusOK, StatusTooLarge}}

\* the back-offs of call c, in order, each 2^a seconds after attempt a
\* (counted from 0)
RECURSIVE BackoffsOf(_, _)
BackoffsOf(c, k) ==
    IF k > Len(c.posts) THEN <<>>
    ELSE (IF k \in OtherFailures(c) THEN <<2 ^ (k - 1)>> ELSE <<>>) \o BackoffsOf(c, k + 1)

\* C24: in sendToQuickwitWithRetry, after attempt a (counted from 0) fails
\* for a reason other than payload-too-large the call backs off 2^a seconds,
\* and the next attempt re-sends the full batch, every entry passed to the
\* call, whatever happened in the earlier attempts of the call
C24_BackoffFullBatch ==
    \A i \in DOMAIN calls :
        /\ calls[i].sleeps = BackoffsOf(calls[i], 1)
        /\ \A k \in OtherFailures(calls[i]) :
              k < Len(calls[i].posts) => calls[i].posts[k + 1].body = calls[i].batch

(***************************************************************************)
(* Loss after the bounded retry.                                           *)
(***************************************************************************)
\* the lines of the batch of call c
BatchLines(c) == {c.batch[j] : j \in DOMAIN c.batch}

\* call number i returned an error
CallFailed(i) == calls[i].err # "nil"

\* what holds of the history after a call has failed: its entries are in no
\* accepted body and in no later call, a failed tail read leaves the stored
\* offset past its lines, and once a read has ended every parseable line
\* before the stored offset has been handed to the transport
LossState ==
    /\ \A i \in DOMAIN calls :
          CallFailed(i) =>
              /\ \A k \in DOMAIN Accepted : Accepted[k] \notin BatchLines(calls[i])
              /\ \A j \in DOMAIN calls :
                    j > i => BatchLines(calls[j]) \cap BatchLines(calls[i]) = {}
              /\ calls[i].from = "tail"
                    => \A k \in BatchLines(calls[i]) : k <= lastPosition
    /\ phase \in {"watchAdd", "tail", "closed"}
          => \A k \in 1..lastPosition :
                file[k].ok => \E i \in DOMAIN calls : k \in BatchLines(calls[i])

\* a step in which a call fails does not end the process
LossStep ==
    (Len(calls') > Len(calls) /\ calls'[Len(calls')].err # "nil")
        => /\ phase' \in {"catchup", "watchAdd", "tail"}
           /\ phase = "tail" => phase' = "tail" /\ lastPosition' = Len(file)

\* C25: an entry whose batch still fails after the bounded retry is lost
\* and never sent again, the process does not exit, and the later lines are
\* still read and delivered, in catch-up and in the tail phase alike; in the
\* tail phase the stored offset stays past the failed lines
C25_LossAfterRetry == [](LossState) /\ [][LossStep]_vars

\* C25 witness: a catch-up batch and a tail batch have failed, and a line
\* appended after them has been accepted
C25_Witness ==
    \E i, j, k \in DOMAIN calls :
        /\ i < j /\ j < k
        /\ calls[i].from = "catchup" /\ CallFailed(i)
        /\ calls[j].from = "tail" /\ CallFailed(j)
        /\ calls[k].from = "tail" /\ ~CallFailed(k)
        /\ \E n \in DOMAIN Accepted : Accepted[n] \in BatchLines(calls[k])
        /\ lastPosition = Len(file)

(***************************************************************************)
(* Observations on the worker pool.                                        *)
(***************************************************************************)
\* the workers that hold a Job whose request succeeded and is not yet counted
Emitting == {w \in Workers : wpc[w] = "emit"}

\* the Jobs whose request succeeded
AnsweredJobs == {a.job : a \in answers}

\* every Job sent so far is in the channel or was received by one worker,
\* which failed on it, is still sending its entries, or has counted it
PoolState ==
    /\ Len(enqueued) = Len(jobs) + Cardinality(failed) + Cardinality(Emitting)
                          + processedDays
    /\ Cardinality(answers) = Cardinality(AnsweredJobs)
    /\ AnsweredJobs \subseteq Range(enqueued)
    /\ processedDays + Cardinality(Emitting) = Cardinality(AnsweredJobs)
    /\ \A w \in failed : wpc[w] \in {"failed", "exited"}

\* a worker leaves its loop only on its own error or on the closed, drained
\* Job channel, and a step of one worker leaves the others where they are
PoolStep ==
    \A w \in Workers :
        (wpc[w] # "exited" /\ wpc'[w] = "exited")
            => /\ w \in failed \/ (jobs = <<>> /\ jobsClosed)
               /\ \A v \in Workers \ {w} : wpc'[v] = wpc[v]

\* C26: every enqueued Job is received by exactly one worker and queried at
\* most once; after one worker fails and exits the others go on receiving
\* Jobs until the channel is drained or they fail themselves; the
\* processed-day counter is incremented once per successful Job and never
\* for a failed one
C26_JobsOncePerWorker == [](PoolState) /\ [][PoolStep]_vars

\* C26 witness: one worker has failed and exited, the other has processed a
\* Job, and the channel is closed and drained
C26_Witness ==
    /\ Cardinality(failed) = 1
    /\ processedDays = 1
    /\ Len(enqueued) = 2
    /\ jobs = <<>>
    /\ \A w \in Workers : wpc[w] = "exited"

(***************************************************************************)
(* Termination of a query run.  Every goroutine is scheduled again and     *)
(* again while it can take a step, and every HTTP request returns.         *)
(***************************************************************************)
\* the steps of main
DriverStep ==
    \/ DriverEnqueue
    \/ DriverCloseJobs
    \/ DriverWgWait
    \/ DriverCloseResult
    \/ DriverProcessDone
    \/ DriverCheckErr
    \/ DriverOutput

\* the steps of worker goroutine w
WorkerStep(w) ==
    \/ WorkerTakeJob(w)
    \/ WorkerSendErr(w)
    \/ WorkerEmit(w)
    \/ WorkerJobDone(w)
    \/ WorkerExit(w)

\* the steps of the merger goroutine
MergerStep ==
    \/ MergerRecv
    \/ MergerUpdate
    \/ MergerLock
    \/ MergerFinal

FairQuery ==
    /\ WF_vars(DriverStep)
    /\ \A w \in Workers : WF_vars(WorkerStep(w))
    /\ WF_vars(MergerStep)

\* a run without a second argument (two Jobs through a Job channel of
\* capacity one) or over one day
InitRun ==
    /\ IngestIdle
    /\ OutputIdle
    /\ \E t \in {"accept", "sp"} :
       \E arg \in {[kind |-> "none", n |-> 0], [kind |-> "days", n |-> 1]} :
          QueryStart(t, arg, Time(5 * DaySeconds + 43200, 0))

SpecRunFair == InitRun /\ [][NextQuery]_vars /\ FairQuery

\* the driver has passed its error check
PastErrorCheck == dpc \in {"output", "exited"}

\* C27: every query run terminates: for every pattern of Job successes and
\* failures and every number of entries the driver finishes enqueueing, the
\* worker join returns, the merger finishes and the driver reaches its
\* error check
C27_RunTerminates ==
    <>(/\ jobsClosed
       /\ \A w \in Workers : wpc[w] = "exited"
       /\ mpc = "done"
       /\ PastErrorCheck)

\* C27 witness: every worker has failed and the driver has left its error
\* check with the error
C27_Witness ==
    /\ failed = Workers
    /\ dpc = "exited"
    /\ exitCode = 1
    /\ mpc = "done"

\* C28: for every accepted argument form the number of Jobs enqueued equals
\* days, the capacity of the Job channel and the total of the progress
\* line, so that the enqueue loop never has to wait for a worker and the
\* processed-day counter never exceeds the displayed total
C28_JobsEqualDays ==
    /\ dpc # "enqueue" => Len(enqueued) = days
    /\ (dpc = "enqueue" /\ Before(currentDate, endDate)) => Len(jobs) < days
    /\ processedDays <= days

(***************************************************************************)
(* Only new data is indexed.                                               *)
(***************************************************************************)
RECURSIVE HandedFrom(_)
\* the lines handed to sendToQuickwitWithRetry from call number i on, in
\* the order of the calls
HandedFrom(i) ==
    IF i > Len(calls) THEN <<>> ELSE calls[i].batch \o HandedFrom(i + 1)

\* the lines handed to sendToQuickwitWithRetry so far
Handed == HandedFrom(1)

\* what the reads have covered: the catch-up scan up to its scanner, the
\* later reads up to the stored offset; the offset is zero until the
\* catch-up scan has ended and never lies past the end of the file
ReadState ==
    /\ lastPosition <= Len(file)
    /\ phase = "catchup"
          => /\ lastPosition = 0
             /\ Handed \o entries = SelectOk(SubSeq(file, 1, scanPos))
    /\ phase # "catchup"
          => Handed = SelectOk(SubSeq(file, 1, lastPosition))

\* a step never moves the stored offset back, and a step that hands lines
\* over in the tail phase hands over the parseable lines from the stored
\* offset to the offset it stores
OffsetStep ==
    /\ lastPosition' >= lastPosition
    /\ (phase = "tail" /\ Len(calls') > Len(calls))
          => calls'[Len(calls')].batch
                = SelectOk(SubSeq(file', lastPosition + 1, lastPosition'))

\* C29: within one process lifetime on an append-only file the stored
\* offset never decreases and every tail read starts where the previous
\* read, catch-up or tail, ended: the lines handed to the ingest client are
\* the parseable lines before the offset, each once and in file order
C29_OnlyNewData == [](ReadState) /\ [][OffsetStep]_vars

\* C29 witness: the catch-up scan handed lines over, a line was appended
\* and two tail reads handed the later lines over, the second starting
\* where the first ended
C29_Witness ==
    /\ phase = "tail"
    /\ lastPosition = Len(file)
    /\ \E i, j, k \in DOMAIN calls :
          /\ i < j /\ j < k
          /\ calls[i].from \in {"catchup", "final"}
          /\ calls[j].from = "tail"
          /\ calls[k].from = "tail"
          /\ calls[k].batch[1] > calls[j].batch[Len(calls[j].batch)]
    /\ \E n \in DOMAIN file : ~file[n].ok

(***************************************************************************)
(* The tail loop under fair scheduling.                                    *)
(***************************************************************************)
\* the ingest goroutine keeps running: the scanner loop, the end of the
\* catch-up scan, watcher.Add and the serving of a queued write event are
\* each taken when they stay possible; the log writer and the closing of
\* the watcher are under no obligation
FairIngest ==
    /\ WF_vars(ExistingDataScan)
    /\ WF_vars(ExistingDataEOF)
    /\ WF_vars(WatcherAdd)
    /\ WF_vars(processNewData)

SpecIngestFair == InitIngest /\ [][NextIngest]_vars /\ FairIngest

\* C30: every complete, parseable line appended to the log file, also one
\* appended after the catch-up scan reached end of file and before the
\* watch was registered with no further write following it, is eventually
\* read and handed to the ingest client while the watcher stays open
C30_AppendedEventuallyHanded ==
    \A k \in 1..MaxLines :
        (Len(file) >= k /\ file[k].ok) ~> (k \in Range(Handed) \/ phase = "closed")

(***************************************************************************)
(* The tail read at byte level.                                            *)
(***************************************************************************)
\* number of lines the log writer writes in the byte-level runs
MaxByteLines == 2

\* the line terminator
NL == <<"\n">>

\* the lines the log writer writes in the byte-level runs
ByteLines == {L_DateOnly, L_BadStamp}

\* dropCR of bufio: a trailing carriage return is cut off
dropCR(data) ==
    IF data # <<>> /\ data[Len(data)] = "\r" THEN SubSeq(data, 1, Len(data) - 1)
    ELSE data

RECURSIVE ScanLines(_)
\* the tokens of a bufio.Scanner (bufio.ScanLines) run to end of file over
\* data: the text before each newline, and at end of file the rest of the
\* data when it is not empty
ScanLines(data) ==
    IF data = <<>> THEN <<>>
    ELSE LET i == Index(data, NL)
         IN  IF i >= 0
             THEN <<dropCR(Slice(data, 0, i))>> \o ScanLines(SliceFrom(data, i + 1))
             ELSE <<dropCR(data)>>

RECURSIVE ParseOk(_)
\* the tokens parseLine accepts, in order
ParseOk(tokens) ==
    IF tokens = <<>> THEN <<>>
    ELSE (IF parseLine(Head(tokens)).err = "nil" THEN <<Head(tokens)>> ELSE <<>>)
         \o ParseOk(Tail(tokens))

\* the number of newlines of data
Newlines(data) == Cardinality({i \in DOMAIN data : data[i] = "\n"})

\* processLogFile has scanned the empty file and registered the watch
InitBytes ==
    /\ file = <<>>
    /\ lastPosition = 0
    /\ scanPos = 0
    /\ entries = <<>>
    /\ phase = "tail"
    /\ events = 0
    /\ calls = <<>>
    /\ QueryIdle
    /\ OutputIdle

\* the log writer starts a line: one write(2) of the first k bytes of the
\* line and its newline; the watcher queues a write event
WriteBytes ==
    /\ partial = <<>>
    /\ Newlines(file) < MaxByteLines
    /\ \E text \in ByteLines : \E k \in 1..(Len(text) + 1) :
          /\ file' = file \o SubSeq(text \o NL, 1, k)
          /\ partial' = SubSeq(text \o NL, k + 1, Len(text) + 1)
    /\ events' = events + 1
    /\ UNCHANGED <<lastPosition, scanPos, entries, phase, calls, parsed>>
    /\ UNCHANGED <<queryVars, outputs, confVars, analysisVars, legacyVars, watchVars>>

\* the log writer writes the rest of the line
WriteRest ==
    /\ partial # <<>>
    /\ file' = file \o partial
    /\ partial' = <<>>
    /\ events' = events + 1
    /\ UNCHANGED <<lastPosition, scanPos, entries, phase, calls, parsed>>
    /\ UNCHANGED <<queryVars, outputs, confVars, analysisVars, legacyVars, watchVars>>

\* a write event is served: processNewData, with readNewEntries at byte
\* level
TailRead ==
    /\ phase = "tail"
    /\ events > 0
    /\ events' = events - 1
    /\ LET data == SubSeq(file, lastPosition + 1, Len(file))
           tokens == ScanLines(data)
           newEntries == ParseOk(tokens)
       IN  /\ lastPosition' = Len(file)
           /\ parsed' = Append(parsed, tokens)
           /\ IF Len(newEntries) > 0
              THEN \E resps \in Responses :
                      calls' = Append(calls, CallRecord("tail", newEntries, resps))
              ELSE UNCHANGED calls
    /\ UNCHANGED <<file, scanPos, entries, phase, partial>>
    /\ UNCHANGED <<queryVars, outputs, confVars, analysisVars, legacyVars, watchVars>>

NextBytes ==
    \/ WriteBytes
    \/ WriteRest
    \/ TailRead

SpecBytes == InitBytes /\ [][NextBytes]_vars


\* C31: a tail read hands only complete, newline-terminated lines to the
\* parser: when the writer writes a line in two writes and a tail read runs
\* between them the stored offset stays at the start of the unfinished
\* line, and that line is parsed once, as one whole line
C31_WholeLinesOnly ==
    /\ lastPosition = 0 \/ file[lastPosition] = "\n"
    /\ \A i \in DOMAIN parsed : \A j \in DOMAIN parsed[i] : parsed[i][j] \in ByteLines
    /\ (partial = <<>> /\ lastPosition = Len(file)) => Flatten(parsed) = ScanLines(file)

(***************************************************************************)
(* The trigger of the halving, on the text of the error.                   *)
(***************************************************************************)
S_413 ==
    <<"4", "1", "3">>

S_PayloadTooLarge ==
    <<"P", "a", "y", "l", "o", "a", "d", " ", "T", "o", "o", " ", "L", "a", "r", "g", "e">>

S_ErrorResponse ==
    <<"e", "r", "r", "o", "r", " ", "r", "e", "s", "p", "o", "n", "s", "e", ":", " ", "S", "t", "a", "t", "u", "s", " ">>

S_Body ==
    <<",", " ", "B", "o", "d", "y", ":", " ">>

S_ErrorSending ==
    <<"e", "r", "r", "o", "r", " ", "s", "e", "n", "d", "i", "n", "g", " ", "r", "e", "q", "u", "e", "s", "t", ":", " ">>

RECURSIVE Itoa(_)
\* %d of fmt for a number that is not negative
Itoa(n) == IF n < 10 THEN <<Digits[n + 1]>> ELSE Itoa(n \div 10) \o <<Digits[(n % 10) + 1]>>

\* the bodies a failing server replies with
B_Empty ==
    <<>>

B_TooLarge ==
    <<"P", "a", "y", "l", "o", "a", "d", " ", "T", "o", "o", " ", "L", "a", "r", "g", "e">>

B_Trace ==
    <<"t", "r", "a", "c", "e", " ", "4", "1", "3", "5">>

\* the texts of the errors of client.Do
T_Refused ==
    <<"d", "i", "a", "l", " ", "t", "c", "p", " ", "1", "0", ".", "0", ".", "0", ".", "5", ":", "7", "4", "1", "3", ":", " ", "c", "o", "n", "n", "e", "c", "t", ":", " ", "c", "o", "n", "n", "e", "c", "t", "i", "o", "n", " ", "r", "e", "f", "u", "s", "e", "d">>

T_Timeout ==
    <<"c", "o", "n", "t", "e", "x", "t", " ", "d", "e", "a", "d", "l", "i", "n", "e", " ", "e", "x", "c", "e", "e", "d", "e", "d">>

\* what one POST meets: a response with a status and a body, or an error of
\* client.Do (status 0)
Answers ==
    [kind : {"http"}, status : {StatusOK, StatusTooLarge, 500}, text : {B_Empty, B_TooLarge, B_Trace}]
        \cup [kind : {"transport"}, status : {0}, text : {T_Refused, T_Timeout}]

\* the error sendToQuickwit returns (<<>> for nil)
sendToQuickwitError(ans) ==
    IF ans.kind = "transport" THEN S_ErrorSending \o ans.text
    ELSE IF ans.status # StatusOK
    THEN S_ErrorResponse \o Itoa(ans.status) \o S_Body \o ans.text
    ELSE <<>>

\* the condition of the halving in sendToQuickwitWithRetry
IsTooLarge(ans) ==
    \/ Contains(sendToQuickwitError(ans), S_413)
    \/ Contains(sendToQuickwitError(ans), S_PayloadTooLarge)

RECURSIVE RetryAttempts(_, _, _, _)
\* the for loop of sendToQuickwitWithRetry from attempt i on: one record per
\* attempt with the answer it met, the working batch size it sent and what
\* the loop did next
RetryAttempts(batchSize, i, replies, log) ==
    IF i >= MaxRetries THEN log
    ELSE LET ans == replies[i + 1]
             err == sendToQuickwitError(ans)
         IN  IF err = <<>>
             THEN Append(log, [answer |-> ans, size |-> batchSize, next |-> "return",
                               after |-> batchSize, sleep |-> 0])
             ELSE IF IsTooLarge(ans)
             THEN IF batchSize \div 2 < 1
                  THEN Append(log, [answer |-> ans, size |-> batchSize, next |-> "zero",
                                    after |-> 0, sleep |-> 0])
                  ELSE RetryAttempts(batchSize \div 2, i + 1, replies,
                                     Append(log, [answer |-> ans, size |-> batchSize,
                                                  next |-> "halve",
                                                  after |-> batchSize \div 2, sleep |-> 0]))
             ELSE RetryAttempts(batchSize, i + 1, replies,
                                Append(log, [answer |-> ans, size |-> batchSize,
                                             next |-> "backoff", after |-> batchSize,
                                             sleep |-> 2 ^ i]))

\* a batch is ready for sendToQuickwitWithRetry
InitRetry ==
    /\ file = <<>>
    /\ lastPosition = 0
    /\ scanPos = 0
    /\ \E n \in 1..MaxLines : entries = [k \in 1..n |-> k]
    /\ phase = "send"
    /\ events = 0
    /\ calls = <<>>
    /\ QueryIdle
    /\ OutputIdle

\* one call of sendToQuickwitWithRetry on the batch
SendWithRetry ==
    /\ phase = "send"
    /\ entries # <<>>
    /\ \E replies \in [1..MaxRetries -> Answers] :
          calls' = Append(calls, [from |-> "send", batch |-> entries,
                                  attempts |-> RetryAttempts(Len(entries), 0, replies, <<>>)])
    /\ entries' = <<>>
    /\ UNCHANGED <<file, lastPosition, scanPos, phase, events>>
    /\ UNCHANGED <<queryVars, outVars>>

NextRetry == SendWithRetry

SpecRetry == InitRetry /\ [][NextRetry]_vars

\* the answer is 413 or its body holds the phrase
TooLargeAnswer(ans) ==
    /\ ans.kind = "http"
    /\ ans.status = StatusTooLarge \/ Contains(ans.text, S_PayloadTooLarge)

\* C32: a failed attempt triggers the halving exactly when the status is
\* 413 or the body of the response holds "Payload Too Large"; every other
\* failure, whatever digits its body or the text of its transport error
\* holds, backs off and leaves the working batch size as it was
C32_HalvingTrigger ==
    \A c \in DOMAIN calls : \A a \in DOMAIN calls[c].attempts :
        LET t == calls[c].attempts[a]
        IN  t.next # "return" =>
                /\ t.next \in {"halve", "zero"} <=> TooLargeAnswer(t.answer)
                /\ ~TooLargeAnswer(t.answer) => (t.next = "backoff" /\ t.after = t.size)

MaxStamps == 3

\* the instants of the stamps, in seconds
StampOffsets == {0, 30, 60, 900, 960, 3600, 3630, 3720}

\* a user activity with one timestamp or more is about to be analysed
InitAnalysis ==
    /\ IngestIdle
    /\ QueryIdle
    /\ outputs = [run \in {1, 2} |-> <<>>]
    /\ ConfigIdle
    /\ WatchIdle
    /\ WriterIdle
    /\ LegacyIdle
    /\ \E n \in 1..MaxStamps : stamps \in [1..n -> StampOffsets]
    /\ analysis = <<>>

\* the calls createOutputData makes for one user activity
Analyze ==
    /\ analysis = <<>>
    /\ stamps # <<>>
    /\ LET patterns == analyzeUsagePatterns(stamps)
           sorted == SortSeq(stamps, LAMBDA a, b : a < b)
       IN  analysis' = <<[usage_patterns |-> patterns,
                          session_analysis |-> analyzeSessionPatterns(sorted),
                          potential_issues |-> analyzePotentialIssues(patterns)]>>
    /\ UNCHANGED stamps
    /\ UNCHANGED <<ingestVars, queryVars, outputs, confVars, writerVars, legacyVars, watchVars>>

NextAnalysis == Analyze

SpecAnalysis == InitAnalysis /\ [][NextAnalysis]_vars

\* the gaps, in seconds, between consecutive stamps in ascending order
Gaps ==
    LET ts == SortSeq(stamps, LAMBDA a, b : a < b)
    IN  {ts[i] - ts[i - 1] : i \in 2..Len(ts)}

\* C34: for every non-empty timestamp sequence, one timestamp included, the
\* potential issues hold rapid_reauth exactly when two consecutive
\* authentications are less than 1 minute apart, and long_gap exactly when
\* the longest gap between consecutive authentications exceeds 60 minutes
C34_IssueRules ==
    analysis # <<>> =>
        /\ "rapid_reauth" \in Range(analysis[1].potential_issues)
              <=> \E g \in Gaps : g < 60
        /\ "long_gap" \in Range(analysis[1].potential_issues)
              <=> \E g \in Gaps : g > 60 * 60

(***************************************************************************)
(* eduroam-accept v2.0.2: one query goroutine, numWorkers goroutines that  *)
(* each run processResults on the shared entry channel.                    *)
(***************************************************************************)
\* entry.Timestamp.Format("2006-01-02"): the calendar day of an instant
DayOf(ts) == ts \div DaySeconds

\* the local maps of processResults before its loop
EmptyLocal == [Users |-> <<>>, UserDays |-> <<>>, Providers |-> <<>>]

\* the body of the range loop of processResults for one entry
FoldLocal(loc, e, sd, ed) ==
    IF e.Timestamp < Unix(sd) \/ e.Timestamp > Unix(ed) THEN loc
    ELSE LET u     == e.Username
             us    == MapGet(loc.Users, u, [DaysActive |-> 0, Providers |-> {}])
             ds    == MapGet(loc.UserDays, u, {})
             fresh == DayOf(e.Timestamp) \notin ds
         IN  [Users |-> MapPut(loc.Users, u,
                            [DaysActive |-> IF fresh THEN us.DaysActive + 1
                                            ELSE us.DaysActive,
                             Providers |-> us.Providers \cup {e.ServiceProvider}]),
              UserDays |-> MapPut(loc.UserDays, u, ds \cup {DayOf(e.Timestamp)}),
              Providers |-> MapPut(loc.Providers, e.ServiceProvider,
                                MapGet(loc.Providers, e.ServiceProvider, {}) \cup {u})]

\* the merge of processResults under the mutex: a user the Result holds
\* already gets the DaysActive of the local map
MergeLocal(res, loc) ==
    [Users |->
        [u \in DOMAIN res.Users \cup DOMAIN loc.Users |->
            IF u \notin DOMAIN loc.Users THEN res.Users[u]
            ELSE IF u \notin DOMAIN res.Users THEN loc.Users[u]
            ELSE [DaysActive |-> loc.Users[u].DaysActive,
                  Providers |-> res.Users[u].Providers \cup loc.Users[u].Providers]],
     Providers |->
        [p \in DOMAIN res.Providers \cup DOMAIN loc.Providers |->
            MapGet(res.Providers, p, {}) \cup MapGet(loc.Providers, p, {})]]

\* the hits the search endpoint answers the query of one day with
HitLists(s) ==
    {<<>>,
     <<LogEntry("alice", "sp1", "", "", s)>>,
     <<LogEntry("alice", "sp1", "", "", s), LogEntry("alice", "sp2", "", "", s + 3600)>>,
     <<LogEntry("bob", "sp1", "", "", s + 60), LogEntry("alice", "sp1", "", "", s + 120)>>}

\* getTimestampRange and the state main has built when its goroutines run
InitConsumers ==
    /\ IngestIdle
    /\ outputs = [run \in {1, 2} |-> <<>>]
    /\ ConfigIdle
    /\ WatchIdle
    /\ WriterIdle
    /\ AnalysisIdle
    /\ tool = "accept202"
    /\ \E d \in 1..MaxDays : \E now \in NowChoices :
          /\ days = d
          /\ endDate = Time(Unix(now), 0)
          /\ startDate = Time(Unix(now) - d * DaySeconds, 0)
    /\ currentDate = startDate
    /\ jobs = <<>>
    /\ jobsClosed = FALSE
    /\ enqueued = <<>>
    /\ dpc = "wait"
    /\ wpc = [w \in Workers |-> "range"]
    /\ pending = [w \in Workers |-> <<>>]
    /\ failed = {}
    /\ answers = {}
    /\ resultChan = <<>>
    /\ resultClosed = FALSE
    /\ errChan = <<>>
    /\ mpc = "none"
    /\ userMap = <<>>
    /\ cur = <<>>
    /\ mu = "free"
    /\ result = [Users |-> <<>>, Providers |-> <<>>]
    /\ processedDays = 0
    /\ observedErrs = 0
    /\ exitCode = -1
    /\ outputWritten = FALSE
    /\ panicked = FALSE
    /\ qpc = "query"
    /\ hits = <<>>
    /\ locals = [w \in Workers |-> EmptyLocal]

\* the query goroutine asks for one day: getQuickwitResults returns an
\* error, after which the goroutine sends it on errChan and returns, or it
\* starts to send the hits
QueryDay ==
    /\ qpc = "query"
    /\ Unix(currentDate) < Unix(endDate)
    /\ LET s == Unix(currentDate)
           e == IF s + DaySeconds > Unix(endDate) THEN Unix(endDate) ELSE s + DaySeconds
       IN  \/ /\ Len(errChan) < ErrChanCap
              /\ errChan' = Append(errChan, 0)
              /\ resultClosed' = TRUE
              /\ qpc' = "done"
              /\ UNCHANGED <<hits, enqueued, answers>>
           \/ /\ \E hs \in HitLists(s) :
                    /\ hits' = hs
                    /\ answers' = answers \cup {[job |-> Job(s, e), buckets |-> hs]}
              /\ enqueued' = Append(enqueued, Job(s, e))
              /\ qpc' = "emit"
              /\ UNCHANGED <<errChan, resultClosed>>
    /\ UNCHANGED <<tool, startDate, endDate, days, currentDate, jobs, jobsClosed>>
    /\ UNCHANGED <<wpc, pending, failed, resultChan, processedDays, panicked>>
    /\ UNCHANGED <<mergerVars, driverVars, ingestVars>>
    /\ UNCHANGED <<outputs, confVars, writerVars, analysisVars, watchVars, locals>>

\* resultChan <- entry in getQuickwitResults
QueryEmit ==
    /\ qpc = "emit"
    /\ hits # <<>>
    /\ Len(resultChan) < ResultChanCap
    /\ resultChan' = Append(resultChan, Head(hits))
    /\ hits' = Tail(hits)
    /\ UNCHANGED <<rangeVars, wpc, pending, failed, answers, resultClosed, errChan,
                   processedDays, panicked>>
    /\ UNCHANGED <<mergerVars, driverVars, ingestVars>>
    /\ UNCHANGED <<outputs, confVars, writerVars, analysisVars, watchVars, qpc, locals>>

\* getQuickwitResults returned nil: the next day
QueryNext ==
    /\ qpc = "emit"
    /\ hits = <<>>
    /\ currentDate' = Time(enqueued[Len(enqueued)].EndTimestamp, 0)
    /\ qpc' = "query"
    /\ UNCHANGED <<tool, startDate, endDate, days, jobs, jobsClosed, enqueued>>
    /\ UNCHANGED <<poolVars, mergerVars, driverVars, ingestVars>>
    /\ UNCHANGED <<outputs, confVars, writerVars, analysisVars, watchVars, hits, locals>>

\* the loop of the query goroutine has ended: the deferred close(resultChan)
QueryClose ==
    /\ qpc = "query"
    /\ ~(Unix(currentDate) < Unix(endDate))
    /\ resultClosed' = TRUE
    /\ qpc' = "done"
    /\ UNCHANGED <<rangeVars, wpc, pending, failed, answers, resultChan, errChan,
                   processedDays, panicked>>
    /\ UNCHANGED <<mergerVars, driverVars, ingestVars>>
    /\ UNCHANGED <<outputs, confVars, writerVars, analysisVars, watchVars, hits, locals>>

\* for entry := range resultChan in goroutine w: one entry is received and
\* folded into the local maps
ConsumerRecv(w) ==
    /\ wpc[w] = "range"
    /\ resultChan # <<>>
    /\ resultChan' = Tail(resultChan)
    /\ locals' = [locals EXCEPT ![w] = FoldLocal(@, Head(resultChan), startDate, endDate)]
    /\ UNCHANGED <<rangeVars, wpc, pending, failed, answers, resultClosed, errChan,
                   processedDays, panicked>>
    /\ UNCHANGED <<mergerVars, driverVars, ingestVars>>
    /\ UNCHANGED <<outputs, confVars, writerVars, analysisVars, watchVars, qpc, hits>>

\* the range loop of goroutine w has ended on the closed, drained channel:
\* mu.Lock(), the merge, the deferred mu.Unlock() and wg.Done()
ConsumerMerge(w) ==
    /\ wpc[w] = "range"
    /\ resultChan = <<>>
    /\ resultClosed
    /\ mu = "free"
    /\ result' = MergeLocal(result, locals[w])
    /\ wpc' = [wpc EXCEPT ![w] = "exited"]
    /\ UNCHANGED <<mpc, userMap, cur, mu>>
    /\ UNCHANGED <<rangeVars, pending, failed, answers, resultChan, resultClosed,
                   errChan, processedDays, panicked>>
    /\ UNCHANGED <<driverVars, ingestVars, outVars>>

\* wg.Wait() has returned: the select on errChan, then the output file
MainAfterWait ==
    /\ dpc = "wait"
    /\ \A w \in Workers : wpc[w] = "exited"
    /\ dpc' = "exited"
    /\ exitCode' = 0
    /\ IF errChan # <<>>
       THEN /\ errChan' = Tail(errChan)
            /\ observedErrs' = observedErrs + 1
            /\ UNCHANGED outputWritten
       ELSE /\ outputWritten' = TRUE
            /\ UNCHANGED <<errChan, observedErrs>>
    /\ UNCHANGED <<wpc, pending, failed, answers, resultChan, resultClosed,
                   processedDays, panicked>>
    /\ UNCHANGED <<rangeVars, mergerVars, ingestVars, outVars>>

NextConsumers ==
    \/ QueryDay
    \/ QueryEmit
    \/ QueryNext
    \/ QueryClose
    \/ \E w \in Workers : ConsumerRecv(w)
    \/ \E w \in Workers : ConsumerMerge(w)
    \/ MainAfterWait

SpecConsumers == InitConsumers /\ [][NextConsumers]_vars

\* the entries the query goroutine has received from the endpoint
AllHits == UNION {Range(a.buckets) : a \in answers}

\* the calendar days on which user u has an entry within the range
DaysOf(u) ==
    {DayOf(e.Timestamp) : e \in {h \in AllHits : /\ h.Username = u
                                                  /\ h.Timestamp >= Unix(startDate)
                                                  /\ h.Timestamp <= Unix(endDate)}}

\* C36: in eduroam-accept v2.0.2, where the goroutines that run
\* processResults share the entry channel and merge under the mutex, the
\* final days_active of each user is the number of distinct days on which
\* the user has an entry, for every distribution of the entries over the
\* goroutines and every merge order
C36_DaysActiveExact ==
    (tool = "accept202" /\ outputWritten) =>
        \A u \in DOMAIN result.Users :
            result.Users[u].DaysActive = Cardinality(DaysOf(u))

(***************************************************************************)
(* eduroam-accept v2.1.0: the worker pool with a blocking send on the      *)
(* error channel, one goroutine running processResults.                    *)
(***************************************************************************)
\* getTimestampRange and the state main has built when its goroutines run
InitPool210 ==
    /\ IngestIdle
    /\ outputs = [run \in {1, 2} |-> <<>>]
    /\ ConfigIdle
    /\ WatchIdle
    /\ WriterIdle
    /\ AnalysisIdle
    /\ tool = "accept210"
    /\ \E d \in 1..MaxDays : \E now \in NowChoices :
          /\ days = d
          /\ endDate = Time(Unix(now), 0)
          /\ startDate = Time(Unix(now) - d * DaySeconds, 0)
    /\ currentDate = startDate
    /\ jobs = <<>>
    /\ jobsClosed = FALSE
    /\ enqueued = <<>>
    /\ dpc = "enqueue"
    /\ wpc = [w \in Workers |-> "recv"]
    /\ pending = [w \in Workers |-> <<>>]
    /\ failed = {}
    /\ answers = {}
    /\ resultChan = <<>>
    /\ resultClosed = FALSE
    /\ errChan = <<>>
    /\ mpc = "range"
    /\ userMap = <<>>
    /\ cur = <<>>
    /\ mu = "free"
    /\ result = [Users |-> <<>>, Providers |-> <<>>]
    /\ processedDays = 0
    /\ observedErrs = 0
    /\ exitCode = -1
    /\ outputWritten = FALSE
    /\ panicked = FALSE
    /\ qpc = "none"
    /\ hits = <<>>
    /\ locals = <<EmptyLocal>>

\* jobs <- Job{...} in the loop of main; the channel holds days Jobs
Enqueue210 ==
    /\ dpc = "enqueue"
    /\ Unix(currentDate) < Unix(endDate)
    /\ Len(jobs) < days
    /\ LET s == Unix(currentDate)
           e == IF s + DaySeconds > Unix(endDate) THEN Unix(endDate) ELSE s + DaySeconds
       IN  /\ jobs' = Append(jobs, Job(s, e))
           /\ enqueued' = Append(enqueued, Job(s, e))
           /\ currentDate' = Time(e, 0)
    /\ UNCHANGED <<tool, startDate, endDate, days, jobsClosed>>
    /\ UNCHANGED <<poolVars, mergerVars, driverVars, ingestVars, outVars>>

\* close(jobs)
CloseJobs210 ==
    /\ dpc = "enqueue"
    /\ ~(Unix(currentDate) < Unix(endDate))
    /\ jobsClosed' = TRUE
    /\ dpc' = "wgWait"
    /\ UNCHANGED <<tool, startDate, endDate, days, currentDate, jobs, enqueued>>
    /\ UNCHANGED <<observedErrs, exitCode, outputWritten>>
    /\ UNCHANGED <<poolVars, mergerVars, ingestVars, outVars>>

\* wg.Wait() returns when every worker has returned; close(resultChan),
\* close(progressChan)
WgWait210 ==
    /\ dpc = "wgWait"
    /\ \A w \in Workers : wpc[w] = "exited"
    /\ resultClosed' = TRUE
    /\ dpc' = "processingWait"
    /\ UNCHANGED <<wpc, pending, failed, answers, resultChan, errChan, processedDays,
                   panicked>>
    /\ UNCHANGED <<observedErrs, exitCode, outputWritten>>
    /\ UNCHANGED <<rangeVars, mergerVars, ingestVars, outVars>>

\* processingWg.Wait() returns; the select on errChan, then the output file
CheckErr210 ==
    /\ dpc = "processingWait"
    /\ mpc = "done"
    /\ dpc' = "exited"
    /\ exitCode' = 0
    /\ IF errChan # <<>>
       THEN /\ errChan' = Tail(errChan)
            /\ observedErrs' = observedErrs + 1
            /\ UNCHANGED outputWritten
       ELSE /\ outputWritten' = TRUE
            /\ UNCHANGED <<errChan, observedErrs>>
    /\ UNCHANGED <<wpc, pending, failed, answers, resultChan, resultClosed,
                   processedDays, panicked>>
    /\ UNCHANGED <<rangeVars, mergerVars, ingestVars, outVars>>

\* for job := range jobs in worker w: getQuickwitResults fails before it
\* sends an entry, or starts to send the hits
TakeJob210(w) ==
    /\ wpc[w] = "recv"
    /\ jobs # <<>>
    /\ jobs' = Tail(jobs)
    /\ \/ /\ failed' = failed \cup {w}
          /\ wpc' = [wpc EXCEPT ![w] = "failed"]
          /\ UNCHANGED <<pending, answers>>
       \/ /\ \E hs \in HitLists(Head(jobs).StartTimestamp) :
                /\ pending' = [pending EXCEPT ![w] = hs]
                /\ answers' = answers \cup {[job |-> Head(jobs), buckets |-> hs]}
          /\ wpc' = [wpc EXCEPT ![w] = "emit"]
          /\ UNCHANGED failed
    /\ UNCHANGED <<resultChan, resultClosed, errChan, processedDays, panicked>>
    /\ UNCHANGED <<tool, startDate, endDate, days, currentDate, jobsClosed, enqueued>>
    /\ UNCHANGED <<mergerVars, driverVars, ingestVars, outVars>>

\* resultChan <- entry in getQuickwitResults
Emit210(w) ==
    /\ wpc[w] = "emit"
    /\ pending[w] # <<>>
    /\ Len(resultChan) < ResultChanCap
    /\ resultChan' = Append(resultChan, Head(pending[w]))
    /\ pending' = [pending EXCEPT ![w] = Tail(@)]
    /\ UNCHANGED <<wpc, failed, answers, resultClosed, errChan, processedDays, panicked>>
    /\ UNCHANGED <<rangeVars, mergerVars, driverVars, ingestVars, outVars>>

\* progressChan <- 1: the channel holds days values and the progress
\* goroutine counts each of them
Progress210(w) ==
    /\ wpc[w] = "emit"
    /\ pending[w] = <<>>
    /\ processedDays' = processedDays + 1
    /\ wpc' = [wpc EXCEPT ![w] = "recv"]
    /\ UNCHANGED <<pending, failed, answers, resultChan, resultClosed, errChan, panicked>>
    /\ UNCHANGED <<rangeVars, mergerVars, driverVars, ingestVars, outVars>>

\* errorChan <- err; return: the send waits for room in the channel
SendErr210(w) ==
    /\ wpc[w] = "failed"
    /\ Len(errChan) < ErrChanCap
    /\ errChan' = Append(errChan, w)
    /\ wpc' = [wpc EXCEPT ![w] = "exited"]
    /\ UNCHANGED <<pending, failed, answers, resultChan, resultClosed, processedDays,
                   panicked>>
    /\ UNCHANGED <<rangeVars, mergerVars, driverVars, ingestVars, outVars>>

\* range jobs ends on the closed, drained channel: wg.Done()
Exit210(w) ==
    /\ wpc[w] = "recv"
    /\ jobs = <<>>
    /\ jobsClosed
    /\ wpc' = [wpc EXCEPT ![w] = "exited"]
    /\ UNCHANGED <<pending, failed, answers, resultChan, resultClosed, errChan,
                   processedDays, panicked>>
    /\ UNCHANGED <<rangeVars, mergerVars, driverVars, ingestVars, outVars>>

\* for entry := range resultChan in processResults
Recv210 ==
    /\ mpc = "range"
    /\ resultChan # <<>>
    /\ resultChan' = Tail(resultChan)
    /\ locals' = [locals EXCEPT ![1] = FoldLocal(@, Head(resultChan), startDate, endDate)]
    /\ UNCHANGED <<wpc, pending, failed, answers, resultClosed, errChan, processedDays,
                   panicked>>
    /\ UNCHANGED <<rangeVars, mergerVars, driverVars, ingestVars>>
    /\ UNCHANGED <<outputs, confVars, writerVars, analysisVars, watchVars, qpc, hits>>

\* the range loop has ended: the merge under the mutex, processingWg.Done()
Merge210 ==
    /\ mpc = "range"
    /\ resultChan = <<>>
    /\ resultClosed
    /\ mu = "free"
    /\ result' = MergeLocal(result, locals[1])
    /\ mpc' = "done"
    /\ UNCHANGED <<userMap, cur, mu>>
    /\ UNCHANGED <<rangeVars, poolVars, driverVars, ingestVars, outVars>>

\* the steps of main, of worker goroutine w and of the processing goroutine
Driver210 == Enqueue210 \/ CloseJobs210 \/ WgWait210 \/ CheckErr210

Worker210(w) ==
    TakeJob210(w) \/ Emit210(w) \/ Progress210(w) \/ SendErr210(w) \/ Exit210(w)

Processing210 == Recv210 \/ Merge210

NextPool210 ==
    \/ Enqueue210
    \/ CloseJobs210
    \/ WgWait210
    \/ CheckErr210
    \/ \E w \in Workers : TakeJob210(w)
    \/ \E w \in Workers : Emit210(w)
    \/ \E w \in Workers : Progress210(w)
    \/ \E w \in Workers : SendErr210(w)
    \/ \E w \in Workers : Exit210(w)
    \/ Recv210
    \/ Merge210

\* every goroutine is scheduled again and again while it can take a step
FairPool210 ==
    /\ WF_vars(Driver210)
    /\ \A w \in Workers : WF_vars(Worker210(w))
    /\ WF_vars(Processing210)

SpecPool210 == InitPool210 /\ [][NextPool210]_vars /\ FairPool210

\* C35: in the worker pool of eduroam-accept v2.1.0, when two workers or
\* more hit a request error every failing worker still exits, the worker
\* join returns and the driver reaches its error check: the run does not
\* hang
C35_TwoFailuresNoHang ==
    (Cardinality(failed) >= 2)
        ~> (/\ \A w \in Workers : wpc[w] = "exited"
            /\ dpc = "exited")

(***************************************************************************)
(* parseLine and parseTimestamp of log2quickwit v1.5.5, on the tokens of   *)
(* a line.                                                                 *)
(***************************************************************************)
S_T ==
    <<"T">>

S_last_message_repeated ==
    <<"l", "a", "s", "t", " ", "m", "e", "s", "s", "a", "g", "e", " ", "r", "e", "p", "e", "a", "t", "e", "d">>

S_system ==
    <<"s", "y", "s", "t", "e", "m">>

S_repeat ==
    <<"r", "e", "p", "e", "a", "t">>

S_userMarker ==
    <<"u", "s", "e", "r">>

S_stationidMarker ==
    <<"s", "t", "a", "t", "i", "o", "n", "i", "d">>

S_fromMarker ==
    <<"f", "r", "o", "m">>

S_toMarker ==
    <<"t", "o">>

\* a complete Access-Accept line with an RFC3339 timestamp
M_Full ==
    <<"2", "0", "2", "4", "-", "0", "1", "-", "0", "2", "T", "1", "5", ":", "0", "4", ":", "0", "5", "Z", " ", "h", " ", "p", "[", "7", "]", " ", "A", "c", "c", "e", "s", "s", "-", "A", "c", "c", "e", "p", "t", ":", " ", "u", "s", "e", "r", " ", "a", " ", "s", "t", "a", "t", "i", "o", "n", "i", "d", " ", "X", " ", "f", "r", "o", "m", " ", "r", " ", "t", "o", " ", "s", " ", "(", "1", ".", "2", ".", "3", ".", "4", ")">>

\* an Access-Accept line whose last token is the marker to
M_EndsInTo ==
    <<"2", "0", "2", "4", "-", "0", "1", "-", "0", "2", "T", "1", "5", ":", "0", "4", ":", "0", "5", "Z", " ", "h", " ", "p", " ", "A", "c", "c", "e", "s", "s", "-", "A", "c", "c", "e", "p", "t", ":", " ", "u", "s", "e", "r", " ", "a", " ", "t", "o">>

\* an Access-Reject line whose last token is the marker user
M_EndsInUser ==
    <<"2", "0", "2", "4", "-", "0", "1", "-", "0", "2", "T", "1", "5", ":", "0", "4", ":", "0", "5", "Z", " ", "h", " ", "p", " ", "A", "c", "c", "e", "s", "s", "-", "R", "e", "j", "e", "c", "t", ":", " ", "f", "o", "r", " ", "u", "s", "e", "r">>

\* a legacy syslog line of five tokens
M_Syslog5 ==
    <<"O", "c", "t", " ", "1", "4", " ", "0", "0", ":", "0", "0", ":", "0", "2", " ", "h", " ", "p">>

\* a legacy syslog line of seven tokens
M_Syslog7 ==
    <<"O", "c", "t", " ", "1", "4", " ", "0", "0", ":", "0", "0", ":", "0", "2", " ", "h", " ", "p", " ", "A", "c", "c", "e", "s", "s", "-", "A", "c", "c", "e", "p", "t", ":", " ", "x">>

\* a legacy syslog line reporting a repeated message
M_Repeated ==
    <<"O", "c", "t", " ", "1", "4", " ", "0", "0", ":", "0", "0", ":", "0", "2", " ", "h", " ", "l", "a", "s", "t", " ", "m", "e", "s", "s", "a", "g", "e", " ", "r", "e", "p", "e", "a", "t", "e", "d", " ", "3", " ", "t", "i", "m", "e", "s">>

\* five tokens, the first three not a timestamp
M_BadStamp ==
    <<"g", "a", "r", "b", "a", "g", "e", " ", "a", " ", "b", " ", "c", " ", "d">>

\* an ISO timestamp without a zone
M_NoZone ==
    <<"2", "0", "2", "4", "-", "0", "1", "-", "0", "2", "T", "1", "5", ":", "0", "4", ":", "0", "5", " ", "h", " ", "p", " ", "m", " ", "x">>

\* a legacy syslog line of December, later in the year than now
M_December ==
    <<"D", "e", "c", " ", "3", "1", " ", "2", "3", ":", "5", "9", ":", "5", "9", " ", "h", " ", "p", " ", "m", " ", "x">>

\* five tokens with an RFC3339 timestamp
M_Iso5 ==
    <<"2", "0", "2", "4", "-", "0", "1", "-", "0", "2", "T", "1", "5", ":", "0", "4", ":", "0", "5", "Z", " ", "h", " ", "p", " ", "m", " ", "x">>

Lines155 ==
    {M_Full, M_EndsInTo, M_EndsInUser, M_Syslog5, M_Syslog7, M_Repeated, M_BadStamp, M_NoZone, M_December, M_Iso5,
     L_Syslog, L_IsoZone, L_Short}

\* the instant time.Now() returns in the runs of the v1.5.5 parser
Now155 == [year |-> 2024, month |-> 10, day |-> 20, clock |-> 12 * 3600]

\* the months of the layout "Jan", in order
MonthSeq ==
    <<<<"J", "a", "n">>, <<"F", "e", "b">>, <<"M", "a", "r">>, <<"A", "p", "r">>,
      <<"M", "a", "y">>, <<"J", "u", "n">>, <<"J", "u", "l">>, <<"A", "u", "g">>,
      <<"S", "e", "p">>, <<"O", "c", "t">>, <<"N", "o", "v">>, <<"D", "e", "c">>>>

MonthNumber(m) == CHOOSE i \in DOMAIN MonthSeq : MonthSeq[i] = m

\* a number below 100 in two digits
Pad2(n) == <<Digits[(n \div 10) + 1], Digits[(n % 10) + 1]>>

\* the seconds since midnight of a clock "15:04:05"
ClockSeconds(c) == 3600 * TwoDigits(c, 1) + 60 * TwoDigits(c, 4) + TwoDigits(c, 7)

\* strings.HasPrefix
HasPrefix(s, prefix) == Len(s) >= Len(prefix) /\ SubSeq(s, 1, Len(prefix)) = prefix

\* strings.TrimSuffix
TrimSuffix(s, suffix) ==
    IF Len(s) >= Len(suffix) /\ SubSeq(s, Len(s) - Len(suffix) + 1, Len(s)) = suffix
    THEN SubSeq(s, 1, Len(s) - Len(suffix))
    ELSE s

RECURSIVE TrimParens(_)
\* strings.Trim(s, "()")
TrimParens(s) ==
    IF s # <<>> /\ Head(s) \in {"(", ")"} THEN TrimParens(Tail(s))
    ELSE IF s # <<>> /\ s[Len(s)] \in {"(", ")"} THEN TrimParens(SubSeq(s, 1, Len(s) - 1))
    ELSE s

\* net.ParseIP on a dotted address: nil (<<>>) unless the text is four
\* numbers separated by dots
ParseIP(s) ==
    IF /\ s # <<>>
       /\ \A i \in DOMAIN s : IsDigit(s[i]) \/ s[i] = "."
       /\ Cardinality({i \in DOMAIN s : s[i] = "."}) = 3
       /\ IsDigit(s[1]) /\ IsDigit(s[Len(s)])
       /\ \A i \in 1..(Len(s) - 1) : ~(s[i] = "." /\ s[i + 1] = ".")
    THEN s ELSE <<>>

\* parseTimestamp of v1.5.5 followed by Format(time.RFC3339): RFC3339
\* first, then "Jan 2 15:04:05" with the current year, moved back one year
\* when it lies after now in December
parseTimestamp155(timestampStr) ==
    LET ps == Fields(timestampStr)
    IN  IF /\ Len(timestampStr) > 19
           /\ IsDateTime(SubSeq(timestampStr, 1, 19), "T")
           /\ IsZone(SubSeq(timestampStr, 20, Len(timestampStr)))
        THEN [err |-> "nil", timestamp |-> timestampStr]
        ELSE IF /\ Len(ps) = 3
                /\ ps[1] \in MonthNames
                /\ IsDay(ps[2])
                /\ IsClock(ps[3])
        THEN LET month == MonthNumber(ps[1])
                 day   == ParseInt(ps[2])
                 after == \/ month > Now155.month
                          \/ month = Now155.month /\ day > Now155.day
                          \/ /\ month = Now155.month /\ day = Now155.day
                             /\ ClockSeconds(ps[3]) > Now155.clock
                 year  == IF after /\ month = 12 THEN Now155.year - 1 ELSE Now155.year
             IN  [err |-> "nil",
                  timestamp |-> Itoa(year) \o <<"-">> \o Pad2(month) \o <<"-">> \o Pad2(day)
                                    \o <<"T">> \o ps[3] \o <<"Z">>]
        ELSE [err |-> "unable to parse timestamp", timestamp |-> <<>>]

\* the LogEntry of v1.5.5 parseLine starts from
NewLogEntry155(line) ==
    [FullMessage |-> line, Timestamp |-> <<>>, Hostname |-> <<>>, Process |-> <<>>,
     PID |-> 0, MessageType |-> <<>>, Username |-> <<>>, StationID |-> <<>>,
     Realm |-> <<>>, ServiceProvider |-> <<>>, DestinationIP |-> <<>>,
     RepeatCount |-> 0]

RECURSIVE AccessLoop(_, _, _)
\* for i, part := range parts[startIndex+2:] of parseLine, from the token
\* at (1-based) position p on: parts[i+startIndex+3] is the token after it,
\* and the index panics when there is none
AccessLoop(entry, parts, p) ==
    IF p > Len(parts) THEN [panic |-> FALSE, entry |-> entry]
    ELSE LET part == parts[p]
             marker == \/ HasPrefix(part, S_userMarker)
                       \/ HasPrefix(part, S_stationidMarker)
                       \/ part = S_fromMarker
                       \/ part = S_toMarker
         IN  IF ~marker THEN AccessLoop(entry, parts, p + 1)
             ELSE IF p + 1 > Len(parts) THEN [panic |-> TRUE, entry |-> entry]
             ELSE IF HasPrefix(part, S_userMarker)
             THEN AccessLoop([entry EXCEPT !.Username = parts[p + 1]], parts, p + 1)
             ELSE IF HasPrefix(part, S_stationidMarker)
             THEN AccessLoop([entry EXCEPT !.StationID = parts[p + 1]], parts, p + 1)
             ELSE IF part = S_fromMarker
             THEN AccessLoop([entry EXCEPT !.Realm = parts[p + 1]], parts, p + 1)
             ELSE AccessLoop(
                      [entry EXCEPT
                          !.ServiceProvider = parts[p + 1],
                          !.DestinationIP = IF p + 2 <= Len(parts)
                                            THEN ParseIP(TrimParens(parts[p + 2]))
                                            ELSE @],
                      parts, p + 1)

\* parseLine of v1.5.5: the error it returns ("nil" for none, "panic" when
\* the call panics) and the entry
parseLine155(line) ==
    LET entry == NewLogEntry155(line)
        parts == Fields(line)
    IN  IF Len(parts) < 5
        THEN [err |-> "invalid log format: not enough parts", entry |-> entry]
        ELSE
        LET iso          == Contains(parts[1], S_T)
            timestampStr == IF iso THEN parts[1] ELSE Join(SubSeq(parts, 1, 3), <<" ">>)
            hostname     == IF iso THEN parts[2] ELSE parts[4]
            startIndex   == IF iso THEN 2 ELSE 4
            ts           == parseTimestamp155(timestampStr)
        IN  IF ts.err # "nil"
            THEN [err |-> "invalid timestamp",
                  entry |-> [entry EXCEPT !.Hostname = hostname]]
            ELSE
            LET e1 == [entry EXCEPT !.Hostname = hostname, !.Timestamp = ts.timestamp]
            IN  IF startIndex + 3 > Len(parts)
                THEN [err |-> "panic", entry |-> e1]
                ELSE IF Join(SubSeq(parts, startIndex + 1, startIndex + 3), <<" ">>)
                           = S_last_message_repeated
                THEN LET repeatCountStr == parts[Len(parts) - 1]
                         isNumber == \A i \in DOMAIN repeatCountStr :
                                         IsDigit(repeatCountStr[i])
                     IN  [err |-> "nil",
                          entry |-> [e1 EXCEPT
                                       !.Process = S_system,
                                       !.MessageType = S_repeat,
                                       !.RepeatCount = IF isNumber
                                                       THEN ParseInt(repeatCountStr)
                                                       ELSE 0]]
                ELSE
                LET processWithPID == parts[startIndex + 1]
                    pidStart == Index(processWithPID, <<"[">>)
                    pidEnd   == Index(processWithPID, <<"]">>)
                    hasPid   == pidStart # -1 /\ pidEnd # -1 /\ pidEnd > pidStart
                    pidStr   == Slice(processWithPID, pidStart + 1, pidEnd)
                    e2 == [e1 EXCEPT
                             !.Process = IF hasPid THEN Slice(processWithPID, 0, pidStart)
                                         ELSE processWithPID,
                             !.PID = IF hasPid /\ pidStr # <<>>
                                        /\ \A i \in DOMAIN pidStr : IsDigit(pidStr[i])
                                     THEN ParseInt(pidStr) ELSE 0]
                    messageType == TrimSuffix(parts[startIndex + 2], <<":">>)
                    e3 == [e2 EXCEPT !.MessageType = messageType]
                    e4 == IF messageType \in {S_AccessAccept, S_AccessReject,
                                              S_AccessChallenge}
                          THEN AccessLoop(e3, parts, startIndex + 3)
                          ELSE [panic |-> FALSE, entry |-> e3]
                IN  IF e4.panic THEN [err |-> "panic", entry |-> e4.entry]
                    ELSE [err |-> "nil", entry |-> e4.entry]

\* processNewData of v1.5.5 is about to read a file of one or two lines
\* from offset 0
InitParse155 ==
    /\ file \in UNION {[1..n -> Lines155] : n \in 1..MaxRawLines}
    /\ lastPosition = 0
    /\ scanPos = 0
    /\ entries = <<>>
    /\ phase = "tail"
    /\ events = 1
    /\ calls = <<>>
    /\ QueryIdle
    /\ OutputIdle

\* one turn of readNewEntries' scanner loop: the next line is parsed; an
\* error is logged and the line skipped, a panic ends the process
ReadLine155 ==
    /\ phase = "tail"
    /\ events = 1
    /\ scanPos < Len(file)
    /\ LET r == parseLine155(file[scanPos + 1])
       IN  /\ parsed' = Append(parsed, r.err)
           /\ entries' = IF r.err = "nil" THEN Append(entries, r.entry) ELSE entries
           /\ phase' = IF r.err = "panic" THEN "panicked" ELSE phase
    /\ scanPos' = scanPos + 1
    /\ UNCHANGED <<file, lastPosition, events, calls, partial>>
    /\ UNCHANGED <<queryVars, outputs, confVars, analysisVars, legacyVars, watchVars>>

\* the scanner is at end-of-file: readNewEntries stores the offset and
\* processNewData sends the entries, if any
ReadDone155 ==
    /\ phase = "tail"
    /\ events = 1
    /\ scanPos = Len(file)
    /\ lastPosition' = Len(file)
    /\ events' = 0
    /\ IF Len(entries) > 0
       THEN \E resps \in Responses :
               calls' = Append(calls, CallRecord("tail", entries, resps))
       ELSE UNCHANGED calls
    /\ UNCHANGED <<file, scanPos, entries, phase, partial, parsed>>
    /\ UNCHANGED <<queryVars, outputs, confVars, analysisVars, legacyVars, watchVars>>

NextParse155 ==
    \/ ReadLine155
    \/ ReadDone155

SpecParse155 == InitParse155 /\ [][NextParse155]_vars

\* C37: parseLine of v1.5.5 never panics on a line of five or more tokens:
\* a line whose last token is a marker (user, stationid, from, to) and a
\* legacy-syslog line of five or six tokens give an entry or a parse error
C37_NoPanic155 ==
    \A i \in DOMAIN parsed :
        Len(Fields(file[i])) >= 5 => parsed[i] # "panic"

(***************************************************************************)
(* The select loop of processLogFile, with the operations of the events    *)
(* and the watcher's error channel.                                        *)
(***************************************************************************)
\* the events and errors the watcher delivers in the modelled run
MaxWatch == 2

\* the operations of the events that come without new data
OtherOps == {{"create"}, {"remove"}, {"rename"}, {"chmod"}, {"chmod", "write"}}

\* the events and errors delivered so far
Delivered == Len(served) + Len(evq) + errq

\* processLogFile has scanned the empty file and registered the watch
InitWatch ==
    /\ file = <<>>
    /\ lastPosition = 0
    /\ scanPos = 0
    /\ entries = <<>>
    /\ phase = "tail"
    /\ events = 0
    /\ calls = <<>>
    /\ QueryIdle
    /\ OutputIdle

\* the log writer appends one complete line; the watcher queues a write event
FsWrite ==
    /\ "events" \notin chClosed
    /\ Delivered < MaxWatch
    /\ Len(file) < MaxLines
    /\ \E ok \in BOOLEAN : file' = Append(file, [id |-> Len(file) + 1, ok |-> ok])
    /\ evq' = Append(evq, {"write"})
    /\ UNCHANGED <<lastPosition, scanPos, entries, phase, events, calls>>
    /\ UNCHANGED <<errq, chClosed, served, ret>>
    /\ UNCHANGED <<queryVars, outputs, confVars, writerVars, analysisVars, legacyVars>>

\* the watcher queues an event that comes without new data
FsOther ==
    /\ "events" \notin chClosed
    /\ Delivered < MaxWatch
    /\ \E op \in OtherOps : evq' = Append(evq, op)
    /\ UNCHANGED <<ingestVars, errq, chClosed, served, ret>>
    /\ UNCHANGED <<queryVars, outputs, confVars, writerVars, analysisVars, legacyVars>>

\* the watcher queues an error
WatchError ==
    /\ "errors" \notin chClosed
    /\ Delivered < MaxWatch
    /\ errq' = errq + 1
    /\ UNCHANGED <<ingestVars, evq, chClosed, served, ret>>
    /\ UNCHANGED <<queryVars, outputs, confVars, writerVars, analysisVars, legacyVars>>

\* one of the watcher's channels is closed
CloseChannel ==
    /\ \E c \in {"events", "errors"} \ chClosed : chClosed' = chClosed \cup {c}
    /\ UNCHANGED <<ingestVars, evq, errq, served, ret>>
    /\ UNCHANGED <<queryVars, outputs, confVars, writerVars, analysisVars, legacyVars>>

\* the record of an event the loop received: whether processNewData ran,
\* whether its read failed, and the line logged
EventRecord(op, ran, readErr, logged) ==
    [kind |-> "event", op |-> op, ran |-> ran, readErr |-> readErr, logged |-> logged]

\* mutant: processNewData runs whatever the operation of the event
ServeEvent_AnyOp ==
    /\ phase = "tail"
    /\ evq # <<>>
    /\ evq' = Tail(evq)
    /\ LET event == Head(evq)
           newEntries == readNewEntries(file, lastPosition)
       IN  /\ lastPosition' = Len(file)
           /\ IF Len(newEntries) > 0
              THEN \E resps \in Responses :
                      LET c == CallRecord("tail", newEntries, resps)
                      IN  /\ calls' = Append(calls, c)
                          /\ served' = Append(served,
                                 EventRecord(event, TRUE, FALSE,
                                     IF c.err = "nil" THEN ""
                                     ELSE "Error processing new data"))
              ELSE /\ UNCHANGED calls
                   /\ served' = Append(served, EventRecord(event, TRUE, FALSE, ""))
    /\ UNCHANGED <<file, scanPos, entries, phase, events, errq, chClosed, ret>>
    /\ UNCHANGED <<queryVars, outputs, confVars, writerVars, analysisVars, legacyVars>>

\* case event, ok := <-watcher.Events with ok: a write event runs
\* processNewData, whose error is logged; any other event is dropped
ServeEvent ==
    /\ phase = "tail"
    /\ evq # <<>>
    /\ evq' = Tail(evq)
    /\ LET event == Head(evq)
           newEntries == readNewEntries(file, lastPosition)
       IN  IF "write" \notin event
           THEN /\ served' = Append(served, EventRecord(event, FALSE, FALSE, ""))
                /\ UNCHANGED <<lastPosition, calls>>
           ELSE \/ \* readNewEntries fails in its seek or its scan
                   /\ served' = Append(served,
                          EventRecord(event, TRUE, TRUE, "Error processing new data"))
                   /\ UNCHANGED <<lastPosition, calls>>
                \/ /\ lastPosition' = Len(file)
                   /\ IF Len(newEntries) > 0
                      THEN \E resps \in Responses :
                              LET c == CallRecord("tail", newEntries, resps)
                              IN  /\ calls' = Append(calls, c)
                                  /\ served' = Append(served,
                                         EventRecord(event, TRUE, FALSE,
                                             IF c.err = "nil" THEN ""
                                             ELSE "Error processing new data"))
                      ELSE /\ UNCHANGED calls
                           /\ served' = Append(served,
                                  EventRecord(event, TRUE, FALSE, ""))
    /\ UNCHANGED <<file, scanPos, entries, phase, events, errq, chClosed, ret>>
    /\ UNCHANGED <<queryVars, outputs, confVars, writerVars, analysisVars, legacyVars>>

\* mutant: an error of the watcher ends processLogFile
ServeError_Return ==
    /\ phase = "tail"
    /\ errq > 0
    /\ errq' = errq - 1
    /\ served' = Append(served, [kind |-> "error", logged |-> "Error watching file"])
    /\ phase' = "closed"
    /\ ret' = "error"
    /\ UNCHANGED <<file, lastPosition, scanPos, entries, events, calls, evq, chClosed>>
    /\ UNCHANGED <<queryVars, outputs, confVars, writerVars, analysisVars, legacyVars>>

\* case err, ok := <-watcher.Errors with ok: the error is logged
ServeError ==
    /\ phase = "tail"
    /\ errq > 0
    /\ errq' = errq - 1
    /\ served' = Append(served, [kind |-> "error", logged |-> "Error watching file"])
    /\ UNCHANGED <<ingestVars, evq, chClosed, ret>>
    /\ UNCHANGED <<queryVars, outputs, confVars, writerVars, analysisVars, legacyVars>>

\* a receive from a closed and drained channel gives !ok: return nil
ServeClosed ==
    /\ phase = "tail"
    /\ \/ "events" \in chClosed /\ evq = <<>>
       \/ "errors" \in chClosed /\ errq = 0
    /\ phase' = "closed"
    /\ ret' = "nil"
    /\ UNCHANGED <<file, lastPosition, scanPos, entries, events, calls>>
    /\ UNCHANGED <<evq, errq, chClosed, served>>
    /\ UNCHANGED <<queryVars, outputs, confVars, writerVars, analysisVars, legacyVars>>

\* the select loop of processLogFile
WatchLoop ==
    \/ ServeEvent
    \/ ServeError
    \/ ServeClosed

NextWatch ==
    \/ FsWrite
    \/ FsOther
    \/ WatchError
    \/ CloseChannel
    \/ WatchLoop

SpecWatch == InitWatch /\ [][NextWatch]_vars

\* the goroutine of processLogFile runs whenever a case of its select is ready
SpecWatchFair == SpecWatch /\ WF_vars(WatchLoop)

\* the loop has just received an error of the watcher
ErrorServed == errq' < errq

\* the loop has just run a processNewData that failed
FailedServed ==
    /\ Len(served') > Len(served)
    /\ served'[Len(served')].kind = "event"
    /\ \/ served'[Len(served')].readErr
       \/ Len(calls') > Len(calls) /\ calls'[Len(calls')].err # "nil"

\* what the loop does on a watcher error and on a failed processNewData
LogAndGoOn ==
    /\ ErrorServed =>
          /\ served' = Append(served, [kind |-> "error", logged |-> "Error watching file"])
          /\ phase' = "tail" /\ ret' = "running"
          /\ UNCHANGED <<evq, file, lastPosition, calls>>
    /\ FailedServed =>
          /\ served'[Len(served')].logged = "Error processing new data"
          /\ phase' = "tail" /\ ret' = "running"
          /\ evq' = Tail(evq)

\* C38: in the tail loop an error of the watcher is logged and the loop goes
\* on with the events still queued, a failed processNewData is logged and
\* the loop goes on, and once either watcher channel is closed
\* processLogFile returns, with no error
C38_LogAndContinue ==
    /\ [][LogAndGoOn]_vars
    /\ [](phase = "closed" => ret = "nil")
    /\ (chClosed # {}) ~> (phase = "closed" /\ ret = "nil")

\* an error was served, after it an event whose processNewData failed, and
\* the loop returned after a channel was closed
C38_Witness ==
    /\ Len(served) = 2
    /\ served[1].kind = "error"
    /\ served[2].kind = "event" /\ served[2].logged = "Error processing new data"
    /\ chClosed # {}
    /\ phase = "closed" /\ ret = "nil"

\* the loop has just received an event whose operation has no Write bit
OtherServed == evq # <<>> /\ evq' = Tail(evq) /\ "write" \notin Head(evq)

\* the loop has just received an event whose operation has the Write bit
WriteServed == evq # <<>> /\ evq' = Tail(evq) /\ "write" \in Head(evq)

\* which events of the tail loop read, post and move the offset
OnlyWriteReads ==
    /\ OtherServed =>
          /\ ~served'[Len(served')].ran
          /\ UNCHANGED <<lastPosition, calls>>
    /\ (lastPosition' # lastPosition \/ calls' # calls) => WriteServed
    /\ (Len(served') > Len(served) /\ served'[Len(served')].kind = "event"
           /\ served'[Len(served')].ran) => WriteServed

\* C39: an event whose operation does not include Write causes no read of
\* the file, no POST and no change of the stored offset; only write events
\* run the seek-read-parse-send step
C39_OnlyWriteEventsRead == [][OnlyWriteReads]_vars

\* a chmod event was served while a line was waiting to be read
C39_Witness ==
    /\ served # <<>>
    /\ served[Len(served)].kind = "event"
    /\ served[Len(served)].op = {"chmod"}
    /\ ~served[Len(served)].ran
    /\ lastPosition < Len(file)

\* the stamps in ascending order, as createOutputData hands them over
Ascending == SortSeq(stamps, LAMBDA a, b : a < b)

\* the indices of the stamps that come more than 15 minutes after the stamp
\* before them
Splits == {i \in 2..Len(Ascending) : Ascending[i] - Ascending[i - 1] > 15 * 60}

\* the index of the first stamp of the k-th run of stamps between splits
RunFirst(k) ==
    IF k = 1 THEN 1
    ELSE CHOOSE i \in Splits : Cardinality({j \in Splits : j < i}) = k - 2

\* the index of the last stamp of the k-th run
RunLast(k) ==
    IF k = Cardinality(Splits) + 1 THEN Len(Ascending) ELSE RunFirst(k + 1) - 1

RECURSIVE SumAuths(_)
\* the sum of the authentication counts of a list of sessions
SumAuths(sessions) ==
    IF sessions = <<>> THEN 0 ELSE Head(sessions).AuthsCount + SumAuths(Tail(sessions))

\* C40: for an ascending sequence of two timestamps or more the sessions and
\* the active periods are the same runs of the sequence, split exactly where
\* two consecutive timestamps are more than 15 minutes apart; the runs
\* partition the sequence and the authentication counts of the sessions sum
\* to its length
C40_SessionsMatchPeriods ==
    (analysis # <<>> /\ Len(stamps) >= 2) =>
        LET sessions == analysis[1].session_analysis.SessionDetails
            periods  == analysis[1].usage_patterns.ActivePeriods
        IN  /\ Len(sessions) = Cardinality(Splits) + 1
            /\ Len(periods) = Len(sessions)
            /\ analysis[1].session_analysis.TotalSessions = Len(sessions)
            /\ \A k \in DOMAIN sessions :
                  /\ sessions[k].Start = FormatTime(Ascending[RunFirst(k)])
                  /\ sessions[k].End = FormatTime(Ascending[RunLast(k)])
                  /\ sessions[k].AuthsCount = RunLast(k) - RunFirst(k) + 1
                  /\ periods[k].Start = sessions[k].Start
                  /\ periods[k].End = sessions[k].End
                  /\ periods[k].AuthCount = sessions[k].AuthsCount
            /\ SumAuths(sessions) = Len(stamps)

\* three stamps, the second exactly 15 minutes after the first and the third
\* more than 15 minutes after the second, were analysed into two sessions
C40_Witness ==
    /\ analysis # <<>>
    /\ stamps = <<0, 900, 3600>>
    /\ analysis[1].session_analysis.TotalSessions = 2
    /\ analysis[1].session_analysis.SessionDetails[1].AuthsCount = 2

====
